---- MODULE Spec2Model ----
(***************************************************************************)
(* Network-Enumeration-Tool: target resolution (target_parser.py,          *)
(* utils.py), the DNS safety prompt (dns_safety.py), the per-host          *)
(* enumeration and the run loop (main.py, nmap_parser.py, windows_enum.py, *)
(* models.py).                                                             *)
(*                                                                         *)
(* Python strings are TLA+ strings; a character is a string of length 1.   *)
(* Python's None is the value None below.                                  *)
(***************************************************************************)
EXTENDS Integers, Sequences, FiniteSets, TLC

VARIABLES
    \* ---- the TargetParser object and its environment
    dns,                \* the name service: name -> address | GaiError
    resolved_targets,   \* TargetParser.resolved_targets
    excluded_ips,       \* TargetParser.excluded_ips
    lookups,            \* the names handed to gethostbyname so far
    \* ---- one method call on the parser / one call of a utils function
    op, arg, ret,
    \* ---- main(): the command line, the locals, the position
    args_targets,       \* args.targets
    args_exclude,       \* args.exclude
    pc,                 \* where main() / enumerate_host() stands
    targets,            \* main's local targets
    todo,               \* what is left of sorted(targets) in the for loop
    hosts,              \* results.hosts, in insertion order (a dict)
    target_ip,          \* the loop variable / enumerate_host's argument
    host_info,          \* enumerate_host's local host_info
    smb_info,           \* enumerate_windows_host's local smb_info
    typed,              \* what input() returned to prompt_confirmation
    response,           \* prompt_confirmation's local response
    prompts,            \* how often prompt_confirmation has asked
    prompt_ret,         \* what prompt_confirmation returned
    exit_code,          \* the process exit status, NotExited while running
    uncaught,           \* the exception that left main(), None otherwise
    report,             \* the host keys in the order of the written report
    \* ---- history of the run
    called,             \* the arguments of the enumerate_host calls, in order
    scanned,            \* the addresses a scan or probe was invoked on
    timed_out,          \* the targets whose service scan timed out
    raised,             \* <<target, message>> of the enumerate_host calls that raised
    \* ---- history of the calls made on one TargetParser
    returned_targets,   \* <<T>> once the last parse_targets call returned T
    returned_exclusions,\* <<E>> once the last parse_exclusions call returned E
    first_call,         \* the first parse_targets call: its argument and end
    \* ---- the EnumerationResults object
    start_time          \* EnumerationResults.start_time

parserVars == <<dns, resolved_targets, excluded_ips, lookups>>
callVars == <<op, arg, ret>>
argVars == <<args_targets, args_exclude>>
sessionVars == <<returned_targets, returned_exclusions, first_call>>
\* what only the calls on the objects themselves change
apiVars == <<sessionVars, start_time>>
hostVars == <<target_ip, host_info, smb_info>>
promptVars == <<typed, response, prompts, prompt_ret>>
endVars == <<exit_code, uncaught, report>>
histVars == <<called, scanned, timed_out, raised>>
mainVars == <<pc, targets, todo, hosts, hostVars, promptVars, endVars, histVars>>
vars == <<parserVars, callVars, argVars, apiVars, mainVars>>

None == "<None>"
\* None where a HostInfo is expected
NoHost == <<>>
\* the exit status of a process that has not exited
NotExited == 0 - 1
\* what a function returned: <<v>> once it has returned v
Return(v) == <<v>>
NoReturn == <<>>

\* the report file: not written, or written with the host keys in this order
NoReport == <<>>
Written(keys) == <<keys>>

\* no parse_targets call has been made yet
NoCall == <<>>

(***************************************************************************)
(* Strings                                                                 *)
(***************************************************************************)
\* s[i-1:i]: the character at place i, "" beyond the end
Ch(s, i) == IF 1 <= i /\ i <= Len(s) THEN SubSeq(s, i, i) ELSE ""

Digits == {"0", "1", "2", "3", "4", "5", "6", "7", "8", "9"}

\* str.strip() removes leading and trailing whitespace
Whitespace == {" ", "\t"}

RECURSIVE Find(_, _, _)
\* the first index >= i at which character c stands in s, 0 when there is none
Find(s, c, i) ==
    IF i > Len(s) THEN 0
    ELSE IF Ch(s, i) = c THEN i
    ELSE Find(s, c, i + 1)

\* s[i-1:j]
Slice(s, i, j) ==
    IF i > Len(s) \/ j < i THEN ""
    ELSE SubSeq(s, i, IF j > Len(s) THEN Len(s) ELSE j)

\* c in s
Contains(s, c) == Find(s, c, 1) # 0

RECURSIVE Split(_, _)
\* s.split(c)
Split(s, c) ==
    LET j == Find(s, c, 1)
    IN  IF j = 0 THEN <<s>>
        ELSE <<SubSeq(s, 1, j - 1)>> \o Split(SubSeq(s, j + 1, Len(s)), c)

RECURSIVE LStrip(_)
LStrip(s) ==
    IF Len(s) > 0 /\ Ch(s, 1) \in Whitespace
    THEN LStrip(SubSeq(s, 2, Len(s))) ELSE s

RECURSIVE RStrip(_)
RStrip(s) ==
    IF Len(s) > 0 /\ Ch(s, Len(s)) \in Whitespace
    THEN RStrip(SubSeq(s, 1, Len(s) - 1)) ELSE s

\* s.strip()
Strip(s) == RStrip(LStrip(s))

Upper == "ABCDEFGHIJKLMNOPQRSTUVWXYZ"
LowerLetters == "abcdefghijklmnopqrstuvwxyz"

LowerCh(c) ==
    LET j == Find(Upper, c, 1) IN IF j = 0 THEN c ELSE Ch(LowerLetters, j)

RECURSIVE Lower(_)
\* s.lower()
Lower(s) ==
    IF Len(s) = 0 THEN s
    ELSE LowerCh(Ch(s, 1)) \o Lower(SubSeq(s, 2, Len(s)))

AllDigits(s) == \A i \in 1..Len(s) : Ch(s, i) \in Digits

DigitVal(c) == Find("0123456789", c, 1) - 1

RECURSIVE ParseDec(_)
\* int(s) of a string of decimal digits
ParseDec(s) ==
    IF Len(s) = 0 THEN 0
    ELSE 10 * ParseDec(SubSeq(s, 1, Len(s) - 1)) + DigitVal(Ch(s, Len(s)))

RECURSIVE Dec(_)
\* str(n) of a natural number
Dec(n) ==
    IF n < 10 THEN Ch("0123456789", n + 1)
    ELSE Dec(n \div 10) \o Ch("0123456789", (n % 10) + 1)

(***************************************************************************)
(* utils.py: is_valid_ip, expand_cidr, resolve_dns                         *)
(***************************************************************************)
\* ipaddress.IPv4Address: one octet of a dotted quad
ValidOctet(o) ==
    /\ Len(o) >= 1
    /\ AllDigits(o)
    /\ Len(o) <= 3
    /\ (o = "0" \/ Ch(o, 1) # "0")
    /\ ParseDec(o) <= 255

\* is_valid_ip(ip): ipaddress.IPv4Address(ip) does not raise ValueError
is_valid_ip(ip) ==
    LET octets == Split(ip, ".")
    IN  /\ Len(octets) = 4
        /\ \A i \in 1..4 : ValidOctet(octets[i])

\* An address as the pair <<upper 16 bits, lower 16 bits>> of its 32-bit value
AddrOf(ip) ==
    LET o == Split(ip, ".")
    IN  <<ParseDec(o[1]) * 256 + ParseDec(o[2]),
          ParseDec(o[3]) * 256 + ParseDec(o[4])>>

\* str(IPv4Address)
Dotted(a) ==
    Dec(a[1] \div 256) \o "." \o Dec(a[1] % 256) \o "." \o
    Dec(a[2] \div 256) \o "." \o Dec(a[2] % 256)

\* the address n places after a
AddrPlus(a, n) == <<a[1] + ((a[2] + n) \div 65536), (a[2] + n) % 65536>>

\* IPv4Network(..., strict=False).network_address for a prefix length p
NetworkAddress(a, p) ==
    LET h == 32 - p
    IN  IF h <= 16 THEN <<a[1], (a[2] \div (2 ^ h)) * (2 ^ h)>>
        ELSE <<(a[1] \div (2 ^ (h - 16))) * (2 ^ (h - 16)), 0>>

\* the prefix length of the text after '/': decimal digits, 0..32
\* (the dotted netmask form 255.255.255.252 is outside the inputs modelled)
ValidPrefix(s) == Len(s) >= 1 /\ AllDigits(s) /\ Len(s) <= 3 /\ ParseDec(s) <= 32

\* a hosts() that starts at the network address
NetworkHosts_from_network(net, p) ==
    LET size == 2 ^ (32 - p)
    IN  [i \in 1..(size - 1) |-> AddrPlus(net, i - 1)]

\* IPv4Network.hosts(): range(network + 1, broadcast); a /31 yields both of
\* its addresses and a /32 its one address
NetworkHosts(net, p) ==
    LET size == 2 ^ (32 - p)
    IN  IF p = 32 THEN <<net>>
        ELSE IF p = 31 THEN <<net, AddrPlus(net, 1)>>
        ELSE [i \in 1..(size - 2) |-> AddrPlus(net, i)]

\* expand_cidr(cidr): the list of host addresses, [] on ValueError
expand_cidr(cidr) ==
    LET parts == Split(cidr, "/")
    IN  IF Len(parts) = 2 /\ is_valid_ip(parts[1]) /\ ValidPrefix(parts[2])
        THEN LET p == ParseDec(parts[2])
                 hs == NetworkHosts(NetworkAddress(AddrOf(parts[1]), p), p)
             IN  [i \in 1..Len(hs) |-> Dotted(hs[i])]
        ELSE <<>>

GaiError == "<socket.gaierror>"
UnicodeError == "<UnicodeError>"

\* the idna codec socket.gethostbyname encodes its argument with: every label
\* but the last is 1..63 characters long, the last at most 63
IdnaRejects(name) ==
    LET labels == Split(name, ".")
    IN  \/ \E i \in 1..(Len(labels) - 1) :
              Len(labels[i]) = 0 \/ Len(labels[i]) >= 64
        \/ Len(labels[Len(labels)]) >= 64

\* socket.gethostbyname(hostname) under the name service d: an address, or
\* the exception raised
gethostbyname(d, hostname) ==
    IF IdnaRejects(hostname) THEN UnicodeError ELSE d[hostname]

\* resolve_dns(hostname): value is the address or None; exc is the exception
\* that leaves the function (only socket.gaierror is caught)
resolve_dns(d, hostname) ==
    LET r == gethostbyname(d, hostname)
    IN  IF r = GaiError THEN [value |-> None, exc |-> None]
        ELSE IF r = UnicodeError THEN [value |-> None, exc |-> UnicodeError]
        ELSE [value |-> r, exc |-> None]

Elems(seq) == {seq[i] : i \in 1..Len(seq)}

(***************************************************************************)
(* target_parser.py: TargetParser                                          *)
(***************************************************************************)
\* [part.strip() for part in spec.split(',')]
Parts(spec) ==
    LET raw == Split(spec, ",") IN [i \in 1..Len(raw) |-> Strip(raw[i])]

RECURSIVE TargetLoop(_, _, _, _)
\* the for loop of parse_targets from parts[i] on; acc holds the set built so
\* far, the names looked up so far and the exception that ended the loop
TargetLoop(d, parts, i, acc) ==
    IF i > Len(parts) THEN acc
    ELSE LET part == parts[i]
         IN  IF part = "" THEN TargetLoop(d, parts, i + 1, acc)
             ELSE IF Contains(part, "/")
             THEN TargetLoop(d, parts, i + 1,
                      [acc EXCEPT !.set = @ \cup Elems(expand_cidr(part))])
             ELSE IF is_valid_ip(part)
             THEN TargetLoop(d, parts, i + 1, [acc EXCEPT !.set = @ \cup {part}])
             ELSE LET r == resolve_dns(d, part)
                      seen == [acc EXCEPT !.looked = Append(@, part)]
                  IN  IF r.exc # None THEN [seen EXCEPT !.exc = r.exc]
                      ELSE IF r.value # None /\ r.value # ""
                      THEN TargetLoop(d, parts, i + 1,
                               [seen EXCEPT !.set = @ \cup {r.value}])
                      ELSE TargetLoop(d, parts, i + 1, seen)

\* TargetParser.parse_targets(target_spec)
parse_targets(d, target_spec) ==
    TargetLoop(d, Parts(target_spec), 1,
               [set |-> {}, looked |-> <<>>, exc |-> None])

RECURSIVE ExclusionLoop(_, _, _, _)
\* the for loop of parse_exclusions from parts[i] on
ExclusionLoop(d, parts, i, acc) ==
    IF i > Len(parts) THEN acc
    ELSE LET part == parts[i]
         IN  IF part = "" THEN ExclusionLoop(d, parts, i + 1, acc)
             ELSE IF Contains(part, "/")
             THEN ExclusionLoop(d, parts, i + 1,
                      [acc EXCEPT !.set = @ \cup Elems(expand_cidr(part))])
             ELSE IF is_valid_ip(part)
             THEN ExclusionLoop(d, parts, i + 1, [acc EXCEPT !.set = @ \cup {part}])
             ELSE LET r == resolve_dns(d, part)
                      seen == [acc EXCEPT !.looked = Append(@, part)]
                  IN  IF r.exc # None THEN [seen EXCEPT !.exc = r.exc]
                      ELSE IF r.value # None /\ r.value # ""
                      THEN ExclusionLoop(d, parts, i + 1,
                               [seen EXCEPT !.set = @ \cup {r.value}])
                      ELSE ExclusionLoop(d, parts, i + 1, seen)

\* a parse_exclusions that passes over the range atoms
parse_exclusions_without_ranges(d, exclusion_spec) ==
    LET parts == Parts(exclusion_spec)
        kept == [i \in 1..Len(parts) |->
                    IF Contains(parts[i], "/") THEN "" ELSE parts[i]]
        r == ExclusionLoop(d, kept, 1, [set |-> {}, looked |-> <<>>, exc |-> None])
    IN  IF exclusion_spec = ""
        THEN [set |-> {}, looked |-> <<>>, exc |-> None, stored |-> FALSE]
        ELSE [set |-> r.set, looked |-> r.looked, exc |-> r.exc,
              stored |-> (r.exc = None)]

\* TargetParser.parse_exclusions(exclusion_spec); stored says whether
\* self.excluded_ips is assigned (the early return for "" leaves it alone)
parse_exclusions(d, exclusion_spec) ==
    IF exclusion_spec = ""
    THEN [set |-> {}, looked |-> <<>>, exc |-> None, stored |-> FALSE]
    ELSE LET r == ExclusionLoop(d, Parts(exclusion_spec), 1,
                      [set |-> {}, looked |-> <<>>, exc |-> None])
         IN  [set |-> r.set, looked |-> r.looked, exc |-> r.exc,
              stored |-> (r.exc = None)]

\* TargetParser.get_final_targets()
get_final_targets(resolved, excluded) == resolved \ excluded

RECURSIVE DnsLoop(_, _)
\* the for loop of has_dns_targets from parts[i] on
DnsLoop(parts, i) ==
    IF i > Len(parts) THEN FALSE
    ELSE LET part == parts[i]
         IN  IF part = "" THEN DnsLoop(parts, i + 1)
             ELSE IF Contains(part, "/") \/ is_valid_ip(part)
             THEN DnsLoop(parts, i + 1)
             ELSE TRUE

\* a has_dns_targets that looks at the first atom only
has_dns_targets_first_atom(target_spec) ==
    LET part == Parts(target_spec)[1]
    IN  part # "" /\ ~Contains(part, "/") /\ ~is_valid_ip(part)

\* TargetParser.has_dns_targets(target_spec)
has_dns_targets(target_spec) == DnsLoop(Parts(target_spec), 1)

(***************************************************************************)
(* Tool output.  A text is the sequence of its lines; a line is held as    *)
(* the fields the regular expressions of the parsers read from it.         *)
(***************************************************************************)
Line(kind, word, addr, port, proto, state, ver) ==
    [kind |-> kind, word |-> word, addr |-> addr, port |-> port,
     proto |-> proto, state |-> state, ver |-> ver]

\* "Nmap scan report for <who>" or "Nmap scan report for <who> (<paren>)"
ReportLine(who, paren) == Line("report", who, paren, 0, None, None, None)
\* "<port>/<proto> <state> <name> <version>"
PortLine(port, proto, state, name, version) ==
    Line("port", name, None, port, proto, state, version)
\* "Running: <family> <version>": version is what follows the family name
\* when it has the form the patterns of extract_os_from_nmap capture
OsLine(family, version) == Line("os", family, None, 0, None, None, version)
\* "OS details: <family> <version>"
OsDetailsLine(family, version) ==
    Line("osdetails", family, None, 0, None, None, version)
\* "OS CPE: <cpe>"
CpeLine(cpe) == Line("cpe", cpe, None, 0, None, None, None)
\* an indented, non-blank line; version is what the pattern
\* Windows\s+(Server\s+)?(\d{4}|\d+\.\d+) captures in it, None when nothing
IndentLine(text, version) == Line("indent", text, None, 0, None, None, version)
\* "<word> (<paren>)"
NoteLine(word, paren) == Line("note", word, paren, 0, None, None, None)
\* "<label>: <value>"
KvLine(label, value) == Line("kv", label, None, 0, None, None, value)
\* "<name> <00> <UNIQUE|GROUP>"
NbLine(name, group) == Line("nb", name, None, 0, None, group, None)
\* any other text on one line
TextLine(msg) == Line("text", msg, None, 0, None, None, None)

\* sub in s
ContainsStr(s, sub) ==
    \E i \in 1..(Len(s) - Len(sub) + 1) : SubSeq(s, i, i + Len(sub) - 1) = sub

RECURSIVE DigitRun(_, _)
\* how many digits stand in s from index i on
DigitRun(s, i) ==
    IF i <= Len(s) /\ Ch(s, i) \in Digits THEN 1 + DigitRun(s, i + 1) ELSE 0

\* the prefix of s that \d+\.\d+\.\d+\.\d+ matches, None when it matches none
QuadPrefix(s) ==
    LET n1 == DigitRun(s, 1)
        n2 == DigitRun(s, n1 + 2)
        n3 == DigitRun(s, n1 + n2 + 3)
        n4 == DigitRun(s, n1 + n2 + n3 + 4)
    IN  IF /\ n1 > 0 /\ Ch(s, n1 + 1) = "."
           /\ n2 > 0 /\ Ch(s, n1 + n2 + 2) = "."
           /\ n3 > 0 /\ Ch(s, n1 + n2 + n3 + 3) = "."
           /\ n4 > 0
        THEN SubSeq(s, 1, n1 + n2 + n3 + n4 + 3)
        ELSE None

\* ^\d+\.\d+\.\d+\.\d+$ matches s
QuadLike(s) == s # None /\ QuadPrefix(s) = s

\* the index of the first line of text satisfying P, 0 when there is none
FirstLine(text, P(_)) ==
    IF \E i \in 1..Len(text) : P(text[i])
    THEN CHOOSE i \in 1..Len(text) :
             P(text[i]) /\ \A j \in 1..(i - 1) : ~P(text[j])
    ELSE 0

(***************************************************************************)
(* models.py: Service, CommandOutput, HostInfo, EnumerationResults         *)
(***************************************************************************)
Service(name, port, protocol, version) ==
    [name |-> name, port |-> port, protocol |-> protocol,
     version |-> version, state |-> "open"]

CommandOutput(command, output) == [command |-> command, output |-> output]

NoInfo == [k \in {} |-> None]

\* HostInfo(ip_address=ip): every other field at its default
HostInfo(ip) ==
    [ip_address |-> ip, hostname |-> None, domain |-> None, os_type |-> None,
     os_version |-> None, services |-> <<>>, windows_info |-> NoInfo,
     command_outputs |-> <<>>, unverified_info |-> <<>>, is_windows |-> FALSE]

\* HostInfo.add_command_output
add_command_output(h, command, output) ==
    [h EXCEPT !.command_outputs = Append(@, CommandOutput(command, output))]

\* HostInfo.add_unverified_info
add_unverified_info(h, info) == [h EXCEPT !.unverified_info = Append(@, info)]

\* dict.update
Update(a, b) ==
    [k \in (DOMAIN a) \cup (DOMAIN b) |-> IF k \in DOMAIN b THEN b[k] ELSE a[k]]

\* an add_host that merges into the entry already stored under the address
add_host_merges(hs, host) ==
    LET Merge(old, new) ==
            [new EXCEPT !.hostname = IF @ = None THEN old.hostname ELSE @,
                        !.services = old.services \o @,
                        !.unverified_info = old.unverified_info \o @]
    IN  IF \E i \in 1..Len(hs) : hs[i].ip_address = host.ip_address
        THEN [i \in 1..Len(hs) |->
                 IF hs[i].ip_address = host.ip_address
                 THEN Merge(hs[i], host) ELSE hs[i]]
        ELSE Append(hs, host)

\* EnumerationResults.add_host: self.hosts[host.ip_address] = host; a key
\* already in the dict keeps its place
add_host(hs, host) ==
    IF \E i \in 1..Len(hs) : hs[i].ip_address = host.ip_address
    THEN [i \in 1..Len(hs) |->
             IF hs[i].ip_address = host.ip_address THEN host ELSE hs[i]]
    ELSE Append(hs, host)

\* EnumerationResults.get_host
get_host(hs, ip) ==
    IF \E i \in 1..Len(hs) : hs[i].ip_address = ip
    THEN hs[CHOOSE i \in 1..Len(hs) : hs[i].ip_address = ip]
    ELSE NoHost

Keys(hs) == {hs[i].ip_address : i \in 1..Len(hs)}

(***************************************************************************)
(* utils.py: extract_os_from_nmap, extract_services_from_nmap;             *)
(* nmap_parser.py: NmapParser                                              *)
(***************************************************************************)
IsOsMention(l) == l.kind \in {"os", "osdetails"}

LinuxFamilies == <<"linux", "ubuntu", "debian", "centos", "red hat">>
UnixFamilies == {"unix", "freebsd", "openbsd", "netbsd", "solaris"}

\* extract_os_from_nmap(output): <<os_type, os_version>>
extract_os_from_nmap(output) ==
    LET WinVer(l) == IsOsMention(l) /\ Lower(l.word) = "windows" /\ l.ver # None
        Win32(l) == IsOsMention(l) /\ Lower(l.word) = "win32"
        Lin(f) == LET P(l) == IsOsMention(l) /\ Lower(l.word) = f /\ l.ver # None
                  IN  FirstLine(output, P)
        Unix(l) == IsOsMention(l) /\ Lower(l.word) \in UnixFamilies
    IN  IF FirstLine(output, WinVer) # 0
        THEN <<"Windows", output[FirstLine(output, WinVer)].ver>>
        ELSE IF FirstLine(output, Win32) # 0 THEN <<"Windows", None>>
        ELSE IF \E k \in 1..Len(LinuxFamilies) : Lin(LinuxFamilies[k]) # 0
        THEN LET k == CHOOSE k \in 1..Len(LinuxFamilies) :
                          /\ Lin(LinuxFamilies[k]) # 0
                          /\ \A j \in 1..(k - 1) : Lin(LinuxFamilies[j]) = 0
             IN  <<"Linux", output[Lin(LinuxFamilies[k])].ver>>
        ELSE IF FirstLine(output, Unix) # 0 THEN <<"Unix", None>>
        ELSE <<None, None>>

RECURSIVE ServiceLoop(_, _)
\* extract_services_from_nmap and parse_services: the open ports, in order
ServiceLoop(output, i) ==
    IF i > Len(output) THEN <<>>
    ELSE LET l == output[i]
         IN  IF l.kind = "port" /\ l.state = "open"
             THEN <<Service(l.word, l.port, l.proto, l.ver)>>
                      \o ServiceLoop(output, i + 1)
             ELSE ServiceLoop(output, i + 1)

\* NmapParser.parse_services
parse_services(output) == ServiceLoop(output, 1)

\* NmapParser.parse_hostname
parse_hostname(output) ==
    LET Rep(l) == l.kind = "report"
        Alt(l) == l.kind = "note" /\ QuadLike(l.addr)
    IN  IF FirstLine(output, Rep) # 0
        THEN LET hostname == output[FirstLine(output, Rep)].word
             IN  IF QuadLike(hostname) THEN None ELSE hostname
        ELSE IF FirstLine(output, Alt) # 0
        THEN output[FirstLine(output, Alt)].word
        ELSE None

\* NmapParser.parse_ip_address
parse_ip_address(output) ==
    LET Paren(l) == QuadLike(l.addr)
        Rep(l) == l.kind = "report" /\ QuadPrefix(l.word) # None
    IN  IF FirstLine(output, Paren) # 0
        THEN output[FirstLine(output, Paren)].addr
        ELSE IF FirstLine(output, Rep) # 0
        THEN QuadPrefix(output[FirstLine(output, Rep)].word)
        ELSE None

RECURSIVE OsSection(_, _, _)
\* the first loop of parse_os_info from line i on: the stripped lines of the
\* OS section
OsSection(output, i, in_os_section) ==
    IF i > Len(output) THEN <<>>
    ELSE LET l == output[i]
         IN  IF l.kind \in {"osdetails", "cpe"}
             THEN OsSection(output, i + 1, TRUE)
             ELSE IF ~in_os_section THEN OsSection(output, i + 1, FALSE)
             ELSE IF l.kind = "indent"
             THEN <<l>> \o OsSection(output, i + 1, TRUE)
             ELSE <<>>

RECURSIVE OsHints(_, _)
\* the second loop of parse_os_info over os_lines
OsHints(os_lines, i) ==
    IF i > Len(os_lines) THEN <<>>
    ELSE LET l == os_lines[i]
             rest == OsHints(os_lines, i + 1)
         IN  IF ContainsStr(l.word, "Windows")
             THEN IF l.ver # None
                  THEN <<"OS version appears to be " \o l.word>> \o rest
                  ELSE <<"OS details: " \o l.word>> \o rest
             ELSE IF ContainsStr(l.word, "Linux") \/ ContainsStr(l.word, "Unix")
             THEN <<"OS details: " \o l.word>> \o rest
             ELSE rest

\* NmapParser.parse_os_info(output): <<os_type, os_version, unverified_info>>
parse_os_info(output) ==
    LET os == extract_os_from_nmap(output)
        Cpe(l) == l.kind = "cpe"
        hints == OsHints(OsSection(output, 1, FALSE), 1)
        unverified ==
            IF FirstLine(output, Cpe) # 0
            THEN Append(hints, "OS CPE: " \o output[FirstLine(output, Cpe)].word)
            ELSE hints
    IN  <<os[1], os[2], unverified>>

\* NmapParser.parse_nmap_output(output, command): a HostInfo, or None (NoHost)
parse_nmap_output(output, command) ==
    LET ip == parse_ip_address(output)
        os == parse_os_info(output)
    IN  IF ip = None THEN NoHost
        ELSE [ip_address |-> ip,
              hostname |-> parse_hostname(output),
              domain |-> None,
              os_type |-> IF os[1] # None THEN os[1] ELSE "Unknown",
              os_version |-> os[2],
              services |-> parse_services(output),
              windows_info |-> NoInfo,
              command_outputs |-> <<CommandOutput(command, output)>>,
              unverified_info |-> os[3],
              is_windows |-> (os[1] = "Windows")]

(***************************************************************************)
(* utils.py: run_command; windows_enum.py: WindowsEnumeration              *)
(***************************************************************************)
\* the text of a line, as far as the substring tests on a whole output go
Render(l) ==
    CASE l.kind = "kv" -> l.word \o ": " \o l.ver
      [] l.kind = "nb" -> l.word \o " <00> " \o l.state
      [] l.kind = "note" -> l.word \o " (" \o l.addr \o ")"
      [] OTHER -> l.word

\* sub in output
TextContains(output, sub) ==
    \E i \in 1..Len(output) : ContainsStr(Render(output[i]), sub)

\* what run_command returns: the text and the return code; a timeout and any
\* other exception of subprocess.run come back as (text, -1)
Ran(out, rc) == [out |-> out, rc |-> rc]
TimedOut == Ran(<<TextLine("Command timed out")>>, -1)
NoSuchTool(tool) ==
    Ran(<<TextLine("[Errno 2] No such file or directory: '" \o tool \o "'")>>, -1)

\* f"=== {a} output ===\n{out1}\n\n=== {b} output ===\n{out2}"
Combined(a, out1, b, out2) ==
    <<TextLine("=== " \o a \o " output ===")>> \o out1 \o
    <<TextLine(""), TextLine("=== " \o b \o " output ===")>> \o out2

\* enumerate_smb(target), r1 what enum4linux gave and r2 what smbclient gives
enumerate_smb(r1, r2) ==
    IF r1.rc = 0 \/ TextContains(r1.out, "DOMAIN") \/ TextContains(r1.out, "WORKGROUP")
    THEN r1
    ELSE Ran(Combined("enum4linux", r1.out, "smbclient", r2.out), r2.rc)

\* enumerate_netbios(target), r1 from nmblookup and r2 from nbtscan
enumerate_netbios(r1, r2) ==
    IF r1.rc = 0 THEN r1
    ELSE Ran(Combined("nmblookup", r1.out, "nbtscan", r2.out), r2.rc)

\* enumerate_ldap(target), r1 from ldapsearch without a base DN and rs from
\* the three searches with a base DN, tried in order
enumerate_ldap(r1, rs) ==
    IF r1.rc = 0 THEN r1
    ELSE IF \E i \in 1..Len(rs) : rs[i].rc = 0
    THEN rs[CHOOSE i \in 1..Len(rs) :
                rs[i].rc = 0 /\ \A j \in 1..(i - 1) : rs[j].rc # 0]
    ELSE r1

\* the value of the first "<label>: <value>" line, label matched whatever
\* its case; None when there is none
KvValue(output, label) ==
    LET P(l) == l.kind = "kv" /\ Lower(l.word) = Lower(label)
    IN  IF FirstLine(output, P) # 0
        THEN Strip(output[FirstLine(output, P)].ver) ELSE None

\* the dict holding value under label, or nothing when value is None
Entry(label, value) == IF value = None THEN NoInfo ELSE [k \in {label} |-> value]

RECURSIVE Join(_, _)
\* sep.join(parts)
Join(parts, sep) ==
    IF Len(parts) = 0 THEN ""
    ELSE IF Len(parts) = 1 THEN parts[1]
    ELSE parts[1] \o sep \o Join(Tail(parts), sep)

\* the words of the lines of one kind, in order
RECURSIVE WordsOf(_, _, _)
WordsOf(output, kind, i) ==
    IF i > Len(output) THEN <<>>
    ELSE IF output[i].kind = kind
    THEN <<output[i].word>> \o WordsOf(output, kind, i + 1)
    ELSE WordsOf(output, kind, i + 1)

\* parse_smb_output(output); a "user" line reads user:[<word>], a "shares"
\* line stands for the share table and holds its rows
parse_smb_output(output) ==
    LET Shares(l) == l.kind = "shares"
        users == WordsOf(output, "user", 1)
    IN  Update(Update(Update(Update(
            Entry("Domain/Workgroup", KvValue(output, "Domain/Workgroup")),
            Entry("Computer Name", KvValue(output, "Computer name"))),
            Entry("OS Version", KvValue(output, "OS version"))),
            Entry("SMB Shares",
                  IF FirstLine(output, Shares) # 0
                  THEN Strip(output[FirstLine(output, Shares)].word) ELSE None)),
            Entry("Users", IF Len(users) > 0 THEN Join(users, ", ") ELSE None))

\* parse_netbios_output(output); a "mac" line holds a MAC address
parse_netbios_output(output) ==
    LET Unique(l) == l.kind = "nb" /\ l.state = "UNIQUE"
        Group(l) == l.kind = "nb" /\ l.state = "GROUP"
        Mac(l) == l.kind = "mac"
        Word(P(_)) == IF FirstLine(output, P) # 0
                      THEN output[FirstLine(output, P)].word ELSE None
    IN  Update(Update(Entry("NetBIOS Name", Word(Unique)),
                      Entry("NetBIOS Domain", Word(Group))),
               Entry("MAC Address", Word(Mac)))

RECURSIVE DcLoop(_, _)
\* re.findall(r'dc=([^,]+)', value) for a value that ends its output: of each
\* comma-separated piece holding "dc=", what follows the first "dc="
DcLoop(pieces, i) ==
    IF i > Len(pieces) THEN <<>>
    ELSE LET piece == pieces[i]
             at == IF ContainsStr(piece, "dc=")
                   THEN CHOOSE j \in 1..Len(piece) :
                            /\ Slice(piece, j, j + 2) = "dc="
                            /\ \A k \in 1..(j - 1) : Slice(piece, k, k + 2) # "dc="
                   ELSE 0
         IN  IF at # 0 /\ at + 2 < Len(piece)
             THEN <<SubSeq(piece, at + 3, Len(piece))>> \o DcLoop(pieces, i + 1)
             ELSE DcLoop(pieces, i + 1)

RECURSIVE DcMatches(_, _)
\* the dc= components of every "<label>: <value>" line, in order
DcMatches(output, i) ==
    IF i > Len(output) THEN <<>>
    ELSE IF output[i].kind = "kv"
    THEN DcLoop(Split(output[i].ver, ","), 1) \o DcMatches(output, i + 1)
    ELSE DcMatches(output, i + 1)

\* parse_ldap_output(output)
parse_ldap_output(output) ==
    LET dcs == DcMatches(output, 1)
    IN  Update(Entry("LDAP Domain", IF Len(dcs) > 0 THEN Join(dcs, ".") ELSE None),
               Entry("Naming Contexts", KvValue(output, "namingContexts")))

\* an SMB step that takes any Domain/Workgroup value as the domain
SmbStep_takes_placeholder(t, h, smb_output) ==
    LET info == parse_smb_output(smb_output)
        h1 == add_command_output(h, "enum4linux -a " \o t, smb_output)
        h2 == [h1 EXCEPT !.windows_info = Update(@, info)]
    IN  IF "Domain/Workgroup" \in DOMAIN info
        THEN [h2 EXCEPT !.domain = info["Domain/Workgroup"]]
        ELSE h2

\* enumerate_windows_host, lines 216-226: the SMB probe applied to host h
SmbStep(t, h, smb_output) ==
    LET info == parse_smb_output(smb_output)
        h1 == add_command_output(h, "enum4linux -a " \o t, smb_output)
        h2 == [h1 EXCEPT !.windows_info = Update(@, info)]
    IN  IF /\ "Domain/Workgroup" \in DOMAIN info
           /\ info["Domain/Workgroup"] # ""
           /\ info["Domain/Workgroup"] # "WORKGROUP"
        THEN [h2 EXCEPT !.domain = info["Domain/Workgroup"]]
        ELSE h2

\* a NetBIOS probe whose facts take the place of what windows_info held
NetbiosStep_replaces(t, h, netbios_output) ==
    LET h1 == add_command_output(h, "nmblookup -A " \o t, netbios_output)
    IN  [h1 EXCEPT !.windows_info = parse_netbios_output(netbios_output)]

\* enumerate_windows_host, lines 228-232: the NetBIOS probe
NetbiosStep(t, h, netbios_output) ==
    LET h1 == add_command_output(h, "nmblookup -A " \o t, netbios_output)
    IN  [h1 EXCEPT !.windows_info = Update(@, parse_netbios_output(netbios_output))]

\* enumerate_windows_host, lines 235-237
has_ldap(h) ==
    \E i \in 1..Len(h.services) :
        h.services[i].port \in {389, 636} /\ h.services[i].protocol = "tcp"

\* enumerate_windows_host, lines 240-246: the LDAP probe
LdapStep(t, h, ldap_output) ==
    LET info == parse_ldap_output(ldap_output)
        h1 == add_command_output(h, "ldapsearch -x -H ldap://" \o t, ldap_output)
        h2 == [h1 EXCEPT !.windows_info = Update(@, info)]
    IN  IF "LDAP Domain" \in DOMAIN info
        THEN [h2 EXCEPT !.domain = info["LDAP Domain"]]
        ELSE h2

\* enumerate_windows_host, lines 248-251
SmbVersionNote(h, info) ==
    IF "OS Version" \in DOMAIN info
    THEN add_unverified_info(h, "OS Version is at least " \o info["OS Version"])
    ELSE h

(***************************************************************************)
(* sorted() of a set of strings                                            *)
(***************************************************************************)
\* the characters of the strings sorted here, in code point order
Ascii ==
    " ()*+,-./0123456789:;<=>ABCDEFGHIJKLMNOPQRSTUVWXYZ_abcdefghijklmnopqrstuvwxyz"

RECURSIVE StrLess(_, _)
\* a < b for Python strings
StrLess(a, b) ==
    IF Len(b) = 0 THEN FALSE
    ELSE IF Len(a) = 0 THEN TRUE
    ELSE IF Ch(a, 1) = Ch(b, 1)
    THEN StrLess(SubSeq(a, 2, Len(a)), SubSeq(b, 2, Len(b)))
    ELSE Find(Ascii, Ch(a, 1), 1) < Find(Ascii, Ch(b, 1), 1)

RECURSIVE Sorted(_)
\* sorted(S)
Sorted(S) ==
    IF S = {} THEN <<>>
    ELSE LET least == CHOOSE x \in S : \A y \in S \ {x} : StrLess(x, y)
         IN  <<least>> \o Sorted(S \ {least})

(***************************************************************************)
(* The inputs of a run: command lines, name service, operator, tools       *)
(***************************************************************************)
\* how often the operator may answer the prompt with an unrecognised text
MaxPrompts == 2

RunTargetSpecs ==
    {"10.0.0.1,10.0.0.2", "10.0.0.2", "host.test, 10.0.0.1", "10.0.0.1/32,host.test",
     "", " , ", "a..b,10.0.0.1", "10.0.0.0/33"}

RunExcludeSpecs == {"", "10.0.0.2", "10.0.0.0/30", "host.test", "10.0.0.9,.test"}

RunNames == {"host.test"}

RunDns == [RunNames -> {"10.0.0.1", GaiError}]

Responses == {"y", "Y", "yes", " Yes ", "n", "NO", "", "  ", "maybe", "yes!", "ye"}

\* the address another host's output may name
Foreign(t) == {"10.0.0.1", "10.0.0.2"} \ {t}

\* nmap_handler.py line 65, and str(e) of line 68
TcpTimeout == <<TextLine("Nmap scan timed out")>>
TcpFailure == <<TextLine("[Errno 12] Cannot allocate memory")>>

\* what nmap -sV -sC -F may print for target t
TcpOutputs(t) ==
    {TcpTimeout, TcpFailure,
     <<ReportLine(t, None), PortLine(22, "tcp", "open", "ssh", "OpenSSH 8.2p1"),
       PortLine(80, "tcp", "filtered", "http", None)>>,
     <<ReportLine("dc01.corp.local", t), PortLine(389, "tcp", "open", "ldap", None),
       OsLine("Windows", "10")>>}
    \cup {<<ReportLine(t, None), NoteLine("gw", o)>> : o \in Foreign(t)}

\* nmap_handler.py line 166
OsTimeout == <<TextLine("Nmap OS detection timed out")>>

\* what nmap -O --osscan-guess may print for target t
OsOutputs(t) ==
    {OsTimeout,
     <<ReportLine(t, None), OsLine("Windows", "Server 2016"),
       CpeLine("cpe:/o:microsoft:windows_server_2016"),
       IndentLine("Microsoft Windows Server 2016", "2016")>>,
     <<ReportLine(t, None), OsDetailsLine("Linux", "5.4.0")>>,
     <<ReportLine(t, None), OsLine("FreeBSD", None)>>}

Enum4linuxRuns ==
    {Ran(<<KvLine("Domain/Workgroup", "CORP"), KvLine("OS version", "10.0")>>, 0),
     Ran(<<KvLine("Domain/Workgroup", "WORKGROUP")>>, 1),
     NoSuchTool("enum4linux")}

SmbclientRuns == {TimedOut}

NmblookupRuns ==
    {Ran(<<NbLine("DC01", "UNIQUE"), NbLine("CORP", "GROUP")>>, 0),
     NoSuchTool("nmblookup")}

NbtscanRuns == {NoSuchTool("nbtscan")}

LdapsearchRuns ==
    {Ran(<<KvLine("namingContexts", "dc=corp,dc=local")>>, 0),
     Ran(<<TextLine("ldap_sasl_bind(SIMPLE): Can't contact LDAP server (-1)")>>, 255)}

LdapBaseRuns ==
    {<<r, r, r>> : r \in {Ran(<<TextLine("No such object (32)")>>, 32)}}
    \cup {<<Ran(<<TextLine("No such object (32)")>>, 32),
            Ran(<<KvLine("dn", "dc=domain,dc=local")>>, 0),
            Ran(<<TextLine("No such object (32)")>>, 32)>>}

(***************************************************************************)
(* dns_safety.py: DNSSafety.prompt_confirmation                            *)
(***************************************************************************)
\* a prompt whose default answer is yes: the empty response proceeds
prompt_decision_empty_yes(resp) ==
    IF resp = "" THEN Return(TRUE)
    ELSE IF resp \in {"y", "yes"} THEN Return(TRUE)
    ELSE IF resp \in {"n", "no"} THEN Return(FALSE)
    ELSE NoReturn

\* one turn of the while loop on the normalised response: what is returned,
\* NoReturn when the loop asks again
prompt_decision(resp) ==
    IF resp = "" THEN Return(FALSE)
    ELSE IF resp \in {"y", "yes"} THEN Return(TRUE)
    ELSE IF resp \in {"n", "no"} THEN Return(FALSE)
    ELSE NoReturn

(***************************************************************************)
(* main.py: main() and enumerate_host()                                    *)
(***************************************************************************)
\* sys.exit(code), or an exception exc leaving main() (exit status 1)
Exit(code, exc) == pc' = "exit" /\ exit_code' = code /\ uncaught' = exc

\* the except clause of the loop of main(): the error entry for target t
except_handler(hs, t, msg) ==
    add_host(hs, add_unverified_info(HostInfo(t), "Enumeration error: " \o msg))

\* main(), lines 265-277: --help, parse_targets, "No valid targets"
MainParseTargets ==
    /\ pc = "start"
    /\ LET r == parse_targets(dns, args_targets)
       IN  IF args_targets = ""
           THEN /\ Exit(0, None)
                /\ UNCHANGED <<resolved_targets, lookups, targets>>
           ELSE IF r.exc # None
           THEN /\ Exit(1, r.exc)
                /\ lookups' = lookups \cup Elems(r.looked)
                /\ UNCHANGED <<resolved_targets, targets>>
           ELSE /\ resolved_targets' = r.set
                /\ lookups' = lookups \cup Elems(r.looked)
                /\ targets' = r.set
                /\ IF r.set = {} THEN Exit(1, None)
                   ELSE pc' = "gate" /\ UNCHANGED <<exit_code, uncaught>>
    /\ UNCHANGED <<dns, excluded_ips, callVars, argVars, apiVars, todo, hosts, hostVars,
                   promptVars, report, histVars>>

\* main(), line 280: is the operator asked?
MainGate ==
    /\ pc = "gate"
    /\ pc' = IF has_dns_targets(args_targets) THEN "prompt" ELSE "exclude"
    /\ UNCHANGED <<parserVars, callVars, argVars, apiVars, targets, todo, hosts, hostVars,
                   promptVars, endVars, histVars>>

\* prompt_confirmation, lines 89-100: one turn of the loop, the operator
\* typing text
Prompt ==
    /\ pc = "prompt"
    /\ \E text \in Responses :
       LET resp == Lower(Strip(text))
           d == prompt_decision(resp)
       IN  /\ typed' = text
           /\ response' = resp
           /\ IF d = NoReturn
              THEN /\ prompts < MaxPrompts
                   /\ prompts' = prompts + 1
                   /\ UNCHANGED <<pc, prompt_ret>>
              ELSE /\ prompt_ret' = d
                   /\ pc' = "prompted"
                   /\ UNCHANGED prompts
    /\ UNCHANGED <<parserVars, callVars, argVars, apiVars, targets, todo, hosts, hostVars,
                   endVars, histVars>>

\* a main() that asks and then goes on whatever the answer
MainConfirm_AnyAnswer ==
    /\ pc = "prompted"
    /\ pc' = "exclude"
    /\ typed' = None /\ response' = None /\ prompts' = 0
    /\ UNCHANGED <<parserVars, callVars, argVars, apiVars, targets, todo, hosts, hostVars,
                   prompt_ret, endVars, histVars>>

\* main(), lines 281-283: the run goes on only with the operator's yes
MainConfirm ==
    /\ pc = "prompted"
    /\ IF prompt_ret = Return(TRUE)
       THEN pc' = "exclude" /\ UNCHANGED <<exit_code, uncaught>>
       ELSE Exit(0, None)
    /\ typed' = None /\ response' = None /\ prompts' = 0
    /\ UNCHANGED <<parserVars, callVars, argVars, apiVars, targets, todo, hosts, hostVars,
                   prompt_ret, report, histVars>>

\* a main() that parses the exclusions and does not subtract them
targets_minus_excluded_kept(ts, excluded) == ts

\* main(), line 289: targets = targets - excluded
targets_minus_excluded(ts, excluded) == ts \ excluded

\* main(), lines 286-300: the exclusions, "All targets were excluded",
\* EnumerationResults(), sorted(targets)
MainExclusions ==
    /\ pc = "exclude"
    /\ LET r == parse_exclusions(dns, args_exclude)
           left == IF args_exclude # "" THEN targets_minus_excluded(targets, r.set)
                   ELSE targets
       IN  IF args_exclude # "" /\ r.exc # None
           THEN /\ Exit(1, r.exc)
                /\ lookups' = lookups \cup Elems(r.looked)
                /\ UNCHANGED <<excluded_ips, targets, todo>>
           ELSE /\ excluded_ips' = IF r.stored THEN r.set ELSE excluded_ips
                /\ lookups' = lookups \cup Elems(r.looked)
                /\ targets' = left
                /\ IF left = {}
                   THEN Exit(1, None) /\ UNCHANGED todo
                   ELSE /\ pc' = "loop"
                        /\ todo' = Sorted(left)
                        /\ UNCHANGED <<exit_code, uncaught>>
    /\ UNCHANGED <<dns, resolved_targets, callVars, argVars, apiVars, hosts, hostVars,
                   promptVars, report, histVars>>

\* main(), line 303 with enumerate_host, lines 217-222: the next target;
\* without nmap the RuntimeError goes to the except clause, lines 307-312
LoopNext ==
    /\ pc = "loop"
    /\ todo # <<>>
    /\ target_ip' = Head(todo)
    /\ todo' = Tail(todo)
    /\ called' = Append(called, Head(todo))
    /\ \E check_nmap_installed \in BOOLEAN :
          IF check_nmap_installed
          THEN pc' = "tcp" /\ UNCHANGED <<hosts, raised>>
          ELSE /\ hosts' = except_handler(hosts, Head(todo),
                                          "nmap is required but not found")
               /\ raised' = raised \cup {<<Head(todo), "nmap is required but not found">>}
               /\ pc' = "loop"
    /\ UNCHANGED <<parserVars, callVars, argVars, apiVars, targets, host_info, smb_info,
                   promptVars, endVars, scanned, timed_out>>

\* a service scan started without a timeout: a scan that would have timed
\* out is waited for, with nothing left to do
EnumTcp_without_timeout ==
    /\ pc = "tcp"
    /\ \E nmap_output \in TcpOutputs(target_ip) :
       LET command == "nmap -sV -sC -F " \o target_ip
           parsed == parse_nmap_output(nmap_output, command)
       IN  IF nmap_output = TcpTimeout
           THEN pc' = "waiting" /\ UNCHANGED <<host_info, timed_out>>
           ELSE /\ host_info' = IF parsed # NoHost THEN parsed
                                ELSE add_command_output(HostInfo(target_ip),
                                                        command, nmap_output)
                /\ pc' = "os"
                /\ UNCHANGED timed_out
    /\ scanned' = scanned \cup {target_ip}
    /\ UNCHANGED <<parserVars, callVars, argVars, apiVars, targets, todo, hosts, target_ip,
                   smb_info, promptVars, endVars, called, raised>>

\* enumerate_host, lines 225-233: the service scan and its parse
EnumTcp ==
    /\ pc = "tcp"
    /\ \E nmap_output \in TcpOutputs(target_ip) :
       LET command == "nmap -sV -sC -F " \o target_ip
           parsed == parse_nmap_output(nmap_output, command)
       IN  /\ host_info' = IF parsed # NoHost THEN parsed
                           ELSE add_command_output(HostInfo(target_ip), command,
                                                   nmap_output)
           /\ timed_out' = IF nmap_output = TcpTimeout
                           THEN timed_out \cup {target_ip} ELSE timed_out
    /\ scanned' = scanned \cup {target_ip}
    /\ pc' = "os"
    /\ UNCHANGED <<parserVars, callVars, argVars, apiVars, targets, todo, hosts, target_ip,
                   smb_info, promptVars, endVars, called, raised>>

\* the OS detection that assigns whatever parse_os_info returned
OsStep_overwrites(t, h, os_output) ==
    LET h1 == add_command_output(h, "nmap -O --osscan-guess " \o t, os_output)
        os == parse_os_info(os_output)
    IN  [h1 EXCEPT !.os_type = os[1],
                   !.os_version = os[2],
                   !.is_windows = (os[1] = "Windows"),
                   !.unverified_info = @ \o os[3]]

\* the OS detection that stores the version it extracted, absent or not
OsStep_stores_absent_version(t, h, os_output) ==
    LET h1 == add_command_output(h, "nmap -O --osscan-guess " \o t, os_output)
        os == parse_os_info(os_output)
        h2 == IF os[1] # None
              THEN [h1 EXCEPT !.os_type = os[1],
                              !.os_version = os[2],
                              !.is_windows = (os[1] = "Windows")]
              ELSE h1
    IN  [h2 EXCEPT !.unverified_info = @ \o os[3]]

\* the OS detection that leaves the is_windows flag as it found it
OsStep_keeps_flag(t, h, os_output) ==
    LET h1 == add_command_output(h, "nmap -O --osscan-guess " \o t, os_output)
        os == parse_os_info(os_output)
        h2 == IF os[1] # None
              THEN [h1 EXCEPT !.os_type = os[1],
                              !.os_version = IF os[2] # None THEN os[2] ELSE @]
              ELSE h1
    IN  [h2 EXCEPT !.unverified_info = @ \o os[3]]

\* enumerate_host, lines 236-248: the OS detection applied to host h
OsStep(t, h, os_output) ==
    LET h1 == add_command_output(h, "nmap -O --osscan-guess " \o t, os_output)
        os == parse_os_info(os_output)
        h2 == IF os[1] # None
              THEN [h1 EXCEPT !.os_type = os[1],
                              !.os_version = IF os[2] # None THEN os[2] ELSE @,
                              !.is_windows = (os[1] = "Windows")]
              ELSE h1
    IN  [h2 EXCEPT !.unverified_info = @ \o os[3]]

\* an enumerate_host that probes every host as a Windows host
EnumOs_probes_every_host ==
    /\ pc = "os"
    /\ \E os_output \in OsOutputs(target_ip) :
          host_info' = OsStep(target_ip, host_info, os_output)
    /\ scanned' = scanned \cup {target_ip}
    /\ pc' = "smb"
    /\ UNCHANGED <<parserVars, callVars, argVars, apiVars, targets, todo, hosts, target_ip,
                   smb_info, promptVars, endVars, called, timed_out, raised>>

\* enumerate_host, lines 236-251
EnumOs ==
    /\ pc = "os"
    /\ \E os_output \in OsOutputs(target_ip) :
          host_info' = OsStep(target_ip, host_info, os_output)
    /\ scanned' = scanned \cup {target_ip}
    /\ pc' = IF host_info'.is_windows THEN "smb" ELSE "add"
    /\ UNCHANGED <<parserVars, callVars, argVars, apiVars, targets, todo, hosts, target_ip,
                   smb_info, promptVars, endVars, called, timed_out, raised>>

\* a Windows enumeration that gives up when the SMB probe failed
WinSmb_stops_on_failure ==
    /\ pc = "smb"
    /\ \E r1 \in Enum4linuxRuns, r2 \in SmbclientRuns :
       LET smb == enumerate_smb(r1, r2)
       IN  /\ host_info' = SmbStep(target_ip, host_info, smb.out)
           /\ smb_info' = IF smb.rc = 0 THEN parse_smb_output(smb.out) ELSE NoInfo
           /\ pc' = IF smb.rc = 0 THEN "netbios" ELSE "add"
    /\ scanned' = scanned \cup {target_ip}
    /\ UNCHANGED <<parserVars, callVars, argVars, apiVars, targets, todo, hosts, target_ip,
                   promptVars, endVars, called, timed_out, raised>>

\* enumerate_windows_host, lines 217-226
WinSmb ==
    /\ pc = "smb"
    /\ \E r1 \in Enum4linuxRuns, r2 \in SmbclientRuns :
       LET smb_output == enumerate_smb(r1, r2).out
       IN  /\ host_info' = SmbStep(target_ip, host_info, smb_output)
           /\ smb_info' = parse_smb_output(smb_output)
    /\ scanned' = scanned \cup {target_ip}
    /\ pc' = "netbios"
    /\ UNCHANGED <<parserVars, callVars, argVars, apiVars, targets, todo, hosts, target_ip,
                   promptVars, endVars, called, timed_out, raised>>

\* enumerate_windows_host, lines 229-232
WinNetbios ==
    /\ pc = "netbios"
    /\ \E r1 \in NmblookupRuns, r2 \in NbtscanRuns :
          host_info' = NetbiosStep(target_ip, host_info,
                                   enumerate_netbios(r1, r2).out)
    /\ scanned' = scanned \cup {target_ip}
    /\ pc' = "ldap"
    /\ UNCHANGED <<parserVars, callVars, argVars, apiVars, targets, todo, hosts, target_ip,
                   smb_info, promptVars, endVars, called, timed_out, raised>>

\* enumerate_windows_host, lines 235-253
WinLdap ==
    /\ pc = "ldap"
    /\ \E r1 \in LdapsearchRuns, rs \in LdapBaseRuns :
          host_info' =
              SmbVersionNote(
                  IF has_ldap(host_info)
                  THEN LdapStep(target_ip, host_info, enumerate_ldap(r1, rs).out)
                  ELSE host_info,
                  smb_info)
    /\ scanned' = IF has_ldap(host_info) THEN scanned \cup {target_ip} ELSE scanned
    /\ smb_info' = NoInfo
    /\ pc' = "add"
    /\ UNCHANGED <<parserVars, callVars, argVars, apiVars, targets, todo, hosts, target_ip,
                   promptVars, endVars, called, timed_out, raised>>

\* enumerate_host, lines 256-258, and main(), line 306
EnumAdd ==
    /\ pc = "add"
    /\ hosts' = add_host(hosts, host_info)
    /\ host_info' = NoHost
    /\ pc' = "loop"
    /\ UNCHANGED <<parserVars, callVars, argVars, apiVars, targets, todo, target_ip,
                   smb_info, promptVars, endVars, histVars>>

\* a loop without the except clause: the exception leaves main()
EnumRaise_Propagates ==
    /\ pc \in {"os", "smb", "netbios", "ldap", "add"}
    /\ Exit(1, "MemoryError")
    /\ raised' = raised \cup {<<target_ip, "MemoryError">>}
    /\ UNCHANGED <<parserVars, callVars, argVars, apiVars, targets, todo, hosts, hostVars,
                   promptVars, report, called, scanned, timed_out>>

\* an exception (any Exception a call may raise, such as MemoryError) leaves
\* enumerate_host after the service scan: main(), lines 307-312
EnumRaise ==
    /\ pc \in {"os", "smb", "netbios", "ldap", "add"}
    /\ hosts' = except_handler(hosts, target_ip, "MemoryError")
    /\ raised' = raised \cup {<<target_ip, "MemoryError">>}
    /\ host_info' = NoHost
    /\ smb_info' = NoInfo
    /\ pc' = "loop"
    /\ UNCHANGED <<parserVars, callVars, argVars, apiVars, targets, todo, target_ip,
                   promptVars, endVars, called, scanned, timed_out>>

\* main(), line 303: the loop has gone through sorted(targets)
LoopDone ==
    /\ pc = "loop"
    /\ todo = <<>>
    /\ pc' = "report"
    /\ UNCHANGED <<parserVars, callVars, argVars, apiVars, targets, todo, hosts, hostVars,
                   promptVars, endVars, histVars>>

\* main(), lines 315-322: build_report writes the report or raises
MainReport ==
    /\ pc = "report"
    /\ \E written \in BOOLEAN :
          IF written
          THEN /\ report' = Written([i \in 1..Len(hosts) |-> hosts[i].ip_address])
               /\ Exit(0, None)
          ELSE /\ Exit(1, None)
               /\ UNCHANGED report
    /\ UNCHANGED <<parserVars, callVars, argVars, apiVars, targets, todo, hosts, hostVars,
                   promptVars, histVars>>

\* the runs: every command line whose specifications name hosts only by
\* address under one name service, the others under each name service
RunInputs ==
    {in \in [t : RunTargetSpecs, e : RunExcludeSpecs, d : RunDns] :
        \/ ContainsStr(in.t, "host.test")
        \/ in.e = "host.test" /\ in.d["host.test"] # GaiError
        \/ in.e # "host.test" /\ in.d["host.test"] = GaiError}

Init ==
    /\ \E in \in RunInputs :
          args_targets = in.t /\ args_exclude = in.e /\ dns = in.d
    /\ resolved_targets = {} /\ excluded_ips = {} /\ lookups = {}
    /\ op = "main" /\ arg = None /\ ret = NoReturn
    /\ pc = "start" /\ targets = {} /\ todo = <<>> /\ hosts = <<>>
    /\ target_ip = None /\ host_info = NoHost /\ smb_info = NoInfo
    /\ typed = None /\ response = None /\ prompts = 0 /\ prompt_ret = NoReturn
    /\ exit_code = NotExited /\ uncaught = None /\ report = NoReport
    /\ called = <<>> /\ scanned = {} /\ timed_out = {} /\ raised = {}
    /\ returned_targets = NoReturn /\ returned_exclusions = NoReturn
    /\ first_call = NoCall /\ start_time = 0

Next ==
    \/ MainParseTargets
    \/ MainGate
    \/ Prompt
    \/ MainConfirm
    \/ MainExclusions
    \/ LoopNext
    \/ EnumTcp
    \/ EnumOs
    \/ WinSmb
    \/ WinNetbios
    \/ WinLdap
    \/ EnumAdd
    \/ EnumRaise
    \/ LoopDone
    \/ MainReport

Spec == Init /\ [][Next]_vars

\* the steps of the enumeration loop: every tool is run with a timeout
\* (nmap_handler.py 22, 59, 160; utils.py 93), so each call returns and the
\* step after it is taken
EnumerationStep ==
    \/ LoopNext
    \/ EnumTcp
    \/ EnumOs
    \/ WinSmb
    \/ WinNetbios
    \/ WinLdap
    \/ EnumAdd
    \/ LoopDone

\* the run, its loop never held up
SpecFair == Init /\ [][Next]_vars /\ WF_vars(EnumerationStep)

(***************************************************************************)
(* Properties of the run                                                   *)
(***************************************************************************)
\* the final target set: parse_targets(T) minus parse_exclusions(E)
FinalTargets == resolved_targets \ excluded_ips

\* the positions of main() inside the enumeration loop
LoopPcs == {"loop", "tcp", "os", "smb", "netbios", "ldap", "add"}

\* the entries of the Result Collection filed under address t
EntriesFor(t) == {i \in 1..Len(hosts) : hosts[i].ip_address = t}

\* C1: when the enumeration loop has finished, the keys of results.hosts are
\* exactly the final targets, each once, so that the entry count equals the
\* number of targets, whatever the scanner printed.
C1_HostsAreTheTargets ==
    pc = "report" =>
        /\ Keys(hosts) = FinalTargets
        /\ Len(hosts) = Cardinality(FinalTargets)

\* C2: at the end of the loop every host whose service scan timed out has
\* exactly one finding under its address, and that finding's evidence log has
\* an entry with the text of the timeout.
C2_TimedOutHostKeepsEvidence ==
    pc = "report" =>
        \A t \in timed_out :
            /\ Cardinality(EntriesFor(t)) = 1
            /\ \E o \in Elems(get_host(hosts, t).command_outputs) :
                  o.output = TcpTimeout

\* does finding f hold every fact of h: services, evidence, platform, notes
KeepsFacts(f, h) ==
    /\ f # NoHost
    /\ Elems(h.services) \subseteq Elems(f.services)
    /\ Elems(h.command_outputs) \subseteq Elems(f.command_outputs)
    /\ Elems(h.unverified_info) \subseteq Elems(f.unverified_info)
    /\ h.os_type # None => f.os_type = h.os_type
    /\ h.is_windows => f.is_windows

\* C3: when enumerate_host raises after facts were recorded in host_info, the
\* finding then filed under the target's address holds every one of them.
C3_FactsSurviveFailure ==
    [][(raised' # raised /\ host_info # NoHost)
          => KeepsFacts(get_host(hosts', target_ip), host_info)]_vars

\* C4: enumerate_host is called once for each final target, in sorted order,
\* whatever happens to the hosts before it; the loop is left only for the
\* report, with every target called; a run that has begun the loop ends only
\* after the report step.
C4_EveryTargetOnce ==
    /\ pc \in LoopPcs => called \o todo = Sorted(FinalTargets)
    /\ pc = "report" => called = Sorted(FinalTargets)
    /\ (pc = "exit" /\ called # <<>>) =>
           /\ called = Sorted(FinalTargets)
           /\ uncaught = None
           /\ Len(hosts) >= 1

\* a run of two targets whose first host failed and whose second host was
\* scanned all the same, now at the report
C4_Witness ==
    /\ pc = "report"
    /\ Len(called) = 2
    /\ \E m \in {"MemoryError", "nmap is required but not found"} :
          <<called[1], m>> \in raised
    /\ called[2] \in scanned

\* C5 as stated: at the end of the loop the scanned addresses are exactly the
\* final targets.
C5_ScannedIsExactlyFinal ==
    pc = "report" => scanned = FinalTargets

\* the targets for which check_nmap_installed failed
NoScanner == {t \in FinalTargets : <<t, "nmap is required but not found">> \in raised}

\* C5: no scan or probe is ever invoked on an excluded address nor outside
\* the final targets; at the end of the loop the scanned addresses are the
\* final targets for which nmap was found; for "10.0.0.1,10.0.0.2" without
\* "10.0.0.2" only 10.0.0.1 is enumerated and there is one entry.
C5_ScannedWithinFinal ==
    /\ scanned \cap excluded_ips = {}
    /\ scanned \subseteq FinalTargets
    /\ pc = "report" => scanned = FinalTargets \ NoScanner
    /\ (pc = "report" /\ args_targets = "10.0.0.1,10.0.0.2"
            /\ args_exclude = "10.0.0.2") =>
           /\ called = <<"10.0.0.1">>
           /\ scanned \subseteq {"10.0.0.1"}
           /\ Len(hosts) = 1

\* the run of the example at the report, its one target scanned
C5_Witness ==
    /\ pc = "report"
    /\ args_targets = "10.0.0.1,10.0.0.2" /\ args_exclude = "10.0.0.2"
    /\ excluded_ips = {"10.0.0.2"}
    /\ scanned = {"10.0.0.1"}

\* the symbolic atoms of a specification: non-empty after trimming, no
\* prefix separator, not a literal address
SymbolicAtoms(spec) ==
    {a \in Elems(Parts(spec)) : a # "" /\ ~Contains(a, "/") /\ ~is_valid_ip(a)}

\* C6: in a run whose target specification has a symbolic atom nothing is
\* enumerated or scanned unless prompt_confirmation has returned True; once
\* it has returned False the run ends with status 0, nothing scanned and no
\* report written.
C6_NoScanWithoutConfirmation ==
    /\ (SymbolicAtoms(args_targets) # {} /\ (scanned # {} \/ called # <<>>))
           => prompt_ret = Return(TRUE)
    /\ prompt_ret = Return(FALSE) =>
           /\ scanned = {} /\ called = <<>> /\ report = NoReport
           /\ pc \in {"prompted", "exit"}
           /\ pc = "exit" => exit_code = 0

\* a run on a name, confirmed by the operator, that has scanned a host
C6_Witness ==
    /\ SymbolicAtoms(args_targets) # {}
    /\ prompt_ret = Return(TRUE)
    /\ scanned # {}

\* what the operator may type, by the decision it stands for
YesTexts == {"y", "Y", "yes", " Yes "}
NoTexts == {"n", "NO"}
EmptyTexts == {"", "  "}

\* C7: prompt_confirmation returns True only when the text that ends the
\* prompt is y or yes up to case and surrounding blanks; an empty text
\* returns False; any other text that is not n or no ends nothing: the prompt
\* is asked again.
C7_PromptFailsClosed ==
    /\ pc = "prompted" =>
           /\ typed \in YesTexts \cup NoTexts \cup EmptyTexts
           /\ prompt_ret = Return(TRUE) <=> typed \in YesTexts
           /\ prompt_ret = Return(FALSE) <=> typed \in NoTexts \cup EmptyTexts
    /\ (pc = "prompt" /\ typed # None) =>
           /\ typed \notin YesTexts \cup NoTexts \cup EmptyTexts
           /\ prompt_ret = NoReturn
           /\ prompts >= 1

\* the operator typed something else first and then a blank line
C7_Witness ==
    /\ pc = "prompted"
    /\ prompts >= 1
    /\ typed = "  "
    /\ prompt_ret = Return(FALSE)


(***************************************************************************)
(* A TargetParser object under calls of its methods, and the functions of  *)
(* utils.py called on their own                                            *)
(***************************************************************************)
\* the longest host part, in bits, of the ranges expanded
MaxHostBits == 3

\* the names the specifications use, and what the name service makes of them
ParserNames == {"example.com", "nohost.test"}
ParserDns ==
    {[n \in ParserNames |-> IF n = "example.com" THEN a ELSE GaiError] :
        a \in {"10.0.0.9", GaiError}}

ParserTargetSpecs ==
    {"10.0.0.1, 10.0.0.2,", "example.com,10.0.0.1", "192.168.1.0/30,10.0.0.1",
     "a..b,10.0.0.1", "10.0.0.0/33,10.0.0.7", " , ", "nohost.test, example.com"}

ParserExclusionSpecs == {"", "10.0.0.0/30,example.com", ".test"}

DnsCheckSpecs ==
    {"192.168.1.1,192.168.1.0/24", "192.168.1.1,example.com", "10.0.0.256",
     "example.com/24", " 10.0.0.1 ,,10.0.0.2", "10.0.0.1,,Host-1", "", " , ",
     "10.0.0.0/33,10.0.0.7"}

CidrAddresses == {"192.168.1.0", "10.0.255.253"}

CidrPool ==
    {a \o "/" \o Dec(p) : a \in CidrAddresses, p \in (32 - MaxHostBits)..32}
    \cup {"10.0.0.0/33", "10.0.0.0/", "/30", "10.0.0/30", "10.0.0.0/3/0",
          "10.0.0.256/30"}

\* what a call returned, by the type of the value, or the exception that
\* left it
ReturnedSet(v) == [set |-> v]
ReturnedBool(v) == [bool |-> v]
ReturnedList(v) == [list |-> v]
Raised(e) == [exc |-> e]

\* parser.parse_targets(s)
CallParseTargets ==
    /\ \E s \in ParserTargetSpecs :
       LET r == parse_targets(dns, s)
       IN  /\ op' = "parse_targets" /\ arg' = s
           /\ lookups' = lookups \cup Elems(r.looked)
           /\ IF r.exc # None
              THEN ret' = Raised(r.exc) /\ UNCHANGED resolved_targets
              ELSE ret' = ReturnedSet(r.set) /\ resolved_targets' = r.set
    /\ UNCHANGED <<dns, excluded_ips, argVars, apiVars, mainVars>>

\* parser.parse_exclusions(s)
CallParseExclusions ==
    /\ \E s \in ParserExclusionSpecs :
       LET r == parse_exclusions(dns, s)
       IN  /\ op' = "parse_exclusions" /\ arg' = s
           /\ lookups' = lookups \cup Elems(r.looked)
           /\ ret' = IF r.exc # None THEN Raised(r.exc) ELSE ReturnedSet(r.set)
           /\ excluded_ips' = IF r.stored THEN r.set ELSE excluded_ips
    /\ UNCHANGED <<dns, resolved_targets, argVars, apiVars, mainVars>>

\* parser.get_final_targets()
CallGetFinalTargets ==
    /\ op' = "get_final_targets" /\ arg' = None
    /\ ret' = ReturnedSet(get_final_targets(resolved_targets, excluded_ips))
    /\ UNCHANGED <<parserVars, argVars, apiVars, mainVars>>

\* parser.has_dns_targets(s)
CallHasDnsTargets ==
    /\ \E s \in DnsCheckSpecs :
          /\ op' = "has_dns_targets" /\ arg' = s
          /\ ret' = ReturnedBool(has_dns_targets(s))
    /\ UNCHANGED <<parserVars, argVars, apiVars, mainVars>>

\* expand_cidr(c)
CallExpandCidr ==
    /\ \E c \in CidrPool :
          /\ op' = "expand_cidr" /\ arg' = c
          /\ ret' = ReturnedList(expand_cidr(c))
    /\ UNCHANGED <<parserVars, argVars, apiVars, mainVars>>

\* TargetParser(): lines 18-20
InitParser ==
    /\ dns \in ParserDns
    /\ resolved_targets = {} /\ excluded_ips = {} /\ lookups = {}
    /\ op = "TargetParser" /\ arg = None /\ ret = NoReturn
    /\ args_targets = "" /\ args_exclude = ""
    /\ pc = "start" /\ targets = {} /\ todo = <<>> /\ hosts = <<>>
    /\ target_ip = None /\ host_info = NoHost /\ smb_info = NoInfo
    /\ typed = None /\ response = None /\ prompts = 0 /\ prompt_ret = NoReturn
    /\ exit_code = NotExited /\ uncaught = None /\ report = NoReport
    /\ called = <<>> /\ scanned = {} /\ timed_out = {} /\ raised = {}
    /\ returned_targets = NoReturn /\ returned_exclusions = NoReturn
    /\ first_call = NoCall /\ start_time = 0

NextParser ==
    \/ CallParseTargets
    \/ CallParseExclusions
    \/ CallGetFinalTargets
    \/ CallHasDnsTargets
    \/ CallExpandCidr

SpecParser == InitParser /\ [][NextParser]_vars

(***************************************************************************)
(* One TargetParser instance used call after call                          *)
(***************************************************************************)
SessionTargetSpecs == {"10.0.0.1,10.0.0.2", "example.com,10.0.0.1", "a..b"}

SessionExclusionSpecs == {"", "10.0.0.2", "10.0.0.9,nohost.test"}

\* a parse_targets that adds to what the instance already holds
SessionParseTargets_accumulates ==
    /\ \E s \in SessionTargetSpecs :
       LET r == parse_targets(dns, s)
           end == IF r.exc # None THEN Raised(r.exc)
                  ELSE ReturnedSet(resolved_targets \cup r.set)
       IN  /\ op' = "parse_targets" /\ arg' = s /\ ret' = end
           /\ lookups' = lookups \cup Elems(r.looked)
           /\ resolved_targets' =
                 IF r.exc # None THEN resolved_targets
                 ELSE resolved_targets \cup r.set
           /\ returned_targets' =
                 IF r.exc # None THEN NoReturn
                 ELSE Return(resolved_targets \cup r.set)
           /\ first_call' = IF first_call = NoCall
                            THEN [spec |-> s, end |-> end] ELSE first_call
    /\ UNCHANGED <<dns, excluded_ips, returned_exclusions, argVars, start_time,
                   mainVars>>

\* parser.parse_targets(s), lines 22-70
SessionParseTargets ==
    /\ \E s \in SessionTargetSpecs :
       LET r == parse_targets(dns, s)
           end == IF r.exc # None THEN Raised(r.exc) ELSE ReturnedSet(r.set)
       IN  /\ op' = "parse_targets" /\ arg' = s /\ ret' = end
           /\ lookups' = lookups \cup Elems(r.looked)
           /\ resolved_targets' = IF r.exc # None THEN resolved_targets ELSE r.set
           /\ returned_targets' = IF r.exc # None THEN NoReturn ELSE Return(r.set)
           /\ first_call' = IF first_call = NoCall
                            THEN [spec |-> s, end |-> end] ELSE first_call
    /\ UNCHANGED <<dns, excluded_ips, returned_exclusions, argVars, start_time,
                   mainVars>>

\* parser.parse_exclusions(s), lines 72-119
SessionParseExclusions ==
    /\ \E s \in SessionExclusionSpecs :
       LET r == parse_exclusions(dns, s)
       IN  /\ op' = "parse_exclusions" /\ arg' = s
           /\ lookups' = lookups \cup Elems(r.looked)
           /\ ret' = IF r.exc # None THEN Raised(r.exc) ELSE ReturnedSet(r.set)
           /\ excluded_ips' = IF r.stored THEN r.set ELSE excluded_ips
           /\ returned_exclusions' =
                 IF r.exc # None THEN NoReturn ELSE Return(r.set)
    /\ UNCHANGED <<dns, resolved_targets, returned_targets, first_call, argVars,
                   start_time, mainVars>>

\* parser.get_final_targets(), lines 121-123
SessionGetFinalTargets ==
    /\ op' = "get_final_targets" /\ arg' = None
    /\ ret' = ReturnedSet(get_final_targets(resolved_targets, excluded_ips))
    /\ UNCHANGED <<parserVars, argVars, apiVars, mainVars>>

NextSession ==
    \/ SessionParseTargets
    \/ SessionParseExclusions
    \/ SessionGetFinalTargets

SpecSession == InitParser /\ [][NextSession]_vars

(***************************************************************************)
(* One EnumerationResults object used call after call                      *)
(***************************************************************************)
\* the clock readings datetime.utcnow() may give at construction
MaxClock == 2

ResultAddresses == {"10.0.0.1", "10.0.0.2"}

\* the findings handed to add_host: a bare one, a parsed one, a failed one
ResultHosts ==
    UNION {{HostInfo(ip),
            [HostInfo(ip) EXCEPT
                !.hostname = "dc01.corp.local", !.os_type = "Windows",
                !.is_windows = TRUE,
                !.services = <<Service("ldap", 389, "tcp", None)>>],
            add_unverified_info(HostInfo(ip), "Enumeration error: MemoryError")}
           : ip \in ResultAddresses}

ArgHost(h) == [host |-> h]
ArgIp(ip) == [ip |-> ip]
ReturnedNone == [none |-> None]
ReturnedHost(h) == [host |-> h]

\* results.add_host(h), lines 110-112
CallAddHost ==
    /\ \E h \in ResultHosts :
          /\ op' = "add_host" /\ arg' = ArgHost(h) /\ ret' = ReturnedNone
          /\ hosts' = add_host(hosts, h)
    /\ UNCHANGED <<parserVars, argVars, apiVars, pc, targets, todo, hostVars,
                   promptVars, endVars, histVars>>

\* results.get_host(ip), lines 114-116
CallGetHost ==
    /\ \E ip \in ResultAddresses \cup {"10.0.0.3"} :
          /\ op' = "get_host" /\ arg' = ArgIp(ip)
          /\ ret' = ReturnedHost(get_host(hosts, ip))
    /\ UNCHANGED <<parserVars, argVars, apiVars, pc, targets, todo, hosts,
                   hostVars, promptVars, endVars, histVars>>

\* EnumerationResults(): lines 107-108
InitResults ==
    /\ hosts = <<>> /\ start_time \in 1..MaxClock
    /\ op = "EnumerationResults" /\ arg = NoReturn /\ ret = NoReturn
    /\ dns \in {[n \in {} |-> None]}
    /\ resolved_targets = {} /\ excluded_ips = {} /\ lookups = {}
    /\ args_targets = "" /\ args_exclude = ""
    /\ pc = "start" /\ targets = {} /\ todo = <<>>
    /\ target_ip = None /\ host_info = NoHost /\ smb_info = NoInfo
    /\ typed = None /\ response = None /\ prompts = 0 /\ prompt_ret = NoReturn
    /\ exit_code = NotExited /\ uncaught = None /\ report = NoReport
    /\ called = <<>> /\ scanned = {} /\ timed_out = {} /\ raised = {}
    /\ returned_targets = NoReturn /\ returned_exclusions = NoReturn
    /\ first_call = NoCall

NextResults ==
    \/ CallAddHost
    \/ CallGetHost

SpecResults == InitResults /\ [][NextResults]_vars

(***************************************************************************)
(* enumerate_windows_host called on a finding of any kind                  *)
(***************************************************************************)
\* the findings handed to enumerate_windows_host: with and without a domain,
\* with and without a port of the LDAP gate
WindowsHosts ==
    {[HostInfo("10.0.0.1") EXCEPT
         !.os_type = "Windows", !.is_windows = TRUE, !.domain = d,
         !.services = sv,
         !.command_outputs =
             <<CommandOutput("nmap -sV -sC -F 10.0.0.1",
                             <<ReportLine("10.0.0.1", None)>>),
               CommandOutput("nmap -O --osscan-guess 10.0.0.1",
                             <<ReportLine("10.0.0.1", None),
                               OsLine("Windows", None)>>)>>] :
        d \in {None, "OLD.local"},
        sv \in {<<>>, <<Service("ldap", 389, "tcp", None)>>,
                <<Service("ldapssl", 636, "tcp", None)>>,
                <<Service("ldap", 389, "udp", None)>>}}

\* WindowsEnumeration.enumerate_windows_host(target, host_info) is entered
InitWindows ==
    /\ pc = "smb" /\ target_ip = "10.0.0.1" /\ host_info \in WindowsHosts
    /\ smb_info = NoInfo
    /\ op = "enumerate_windows_host" /\ arg = None /\ ret = NoReturn
    /\ dns \in {[n \in {} |-> None]}
    /\ resolved_targets = {} /\ excluded_ips = {} /\ lookups = {}
    /\ args_targets = "" /\ args_exclude = ""
    /\ targets = {} /\ todo = <<>> /\ hosts = <<>>
    /\ typed = None /\ response = None /\ prompts = 0 /\ prompt_ret = NoReturn
    /\ exit_code = NotExited /\ uncaught = None /\ report = NoReport
    /\ called = <<>> /\ scanned = {} /\ timed_out = {} /\ raised = {}
    /\ returned_targets = NoReturn /\ returned_exclusions = NoReturn
    /\ first_call = NoCall /\ start_time = 0

NextWindows ==
    \/ WinSmb
    \/ WinNetbios
    \/ WinLdap

SpecWindows == InitWindows /\ [][NextWindows]_vars


(***************************************************************************)
(* Properties of the parser                                                *)
(***************************************************************************)
\* C8: has_dns_targets(spec) is true exactly when spec has a symbolic atom;
\* the call looks no name up and leaves the parser's sets as they were; it
\* is false for "192.168.1.1,192.168.1.0/24" and true for
\* "192.168.1.1,example.com".
C8_HasDnsTargets ==
    [][op' = "has_dns_targets" =>
          /\ ret' = ReturnedBool(SymbolicAtoms(arg') # {})
          /\ UNCHANGED <<dns, resolved_targets, excluded_ips, lookups>>
          /\ arg' = "192.168.1.1,192.168.1.0/24" => ret' = ReturnedBool(FALSE)
          /\ arg' = "192.168.1.1,example.com" => ret' = ReturnedBool(TRUE)]_vars

\* a parser that has resolved targets and looked names up is asked about a
\* specification with a name in it
C8_Witness ==
    /\ op = "has_dns_targets"
    /\ arg = "192.168.1.1,example.com"
    /\ ret = ReturnedBool(TRUE)
    /\ resolved_targets # {}
    /\ lookups # {}

\* what one atom stands for under the name service d: nothing when it is
\* empty, malformed or does not resolve
AtomResult(d, a) ==
    IF a = "" THEN {}
    ELSE IF Contains(a, "/") THEN Elems(expand_cidr(a))
    ELSE IF is_valid_ip(a) THEN {a}
    ELSE IF gethostbyname(d, a) \in {GaiError, UnicodeError} THEN {}
    ELSE {gethostbyname(d, a)}

\* C9: parse_targets always returns, and what it returns is the union of
\* what its atoms stand for, whatever the lookup of a name ends in.
C9_ParseTargetsNeverFails ==
    op = "parse_targets" =>
        ret = ReturnedSet(UNION {AtomResult(dns, a) : a \in Elems(Parts(arg))})

\* a range expression address/p with a literal address and p in 0..32
WellFormedRange(c) ==
    LET parts == Split(c, "/")
    IN  Len(parts) = 2 /\ is_valid_ip(parts[1]) /\ ValidPrefix(parts[2])

RangePrefix(c) == ParseDec(Split(c, "/")[2])

RangeNetwork(c) == NetworkAddress(AddrOf(Split(c, "/")[1]), RangePrefix(c))

\* the addresses strictly between the network and the broadcast address
StrictlyBetween(c) ==
    LET size == 2 ^ (32 - RangePrefix(c))
    IN  {Dotted(AddrPlus(RangeNetwork(c), i)) : i \in 1..(size - 2)}

\* C10 as stated: for every well-formed range, prefix lengths 31 and 32
\* included, expand_cidr returns exactly the addresses strictly between the
\* network and the broadcast address.
C10_StrictlyBetweenForEveryPrefix ==
    (op = "expand_cidr" /\ WellFormedRange(arg)) =>
        /\ Elems(ret.list) = StrictlyBetween(arg)
        /\ Len(ret.list) = Cardinality(StrictlyBetween(arg))

\* C10: for a well-formed range of prefix length at most 30 expand_cidr
\* returns, each once, exactly the addresses strictly between the network
\* and the broadcast address and neither of these two; for prefix length 31
\* it returns both addresses of the range and for 32 the one address; for
\* "192.168.1.0/30" it returns 192.168.1.1 and 192.168.1.2.
C10_HostsOfRange ==
    (op = "expand_cidr" /\ WellFormedRange(arg)) =>
        LET p == RangePrefix(arg)
            net == RangeNetwork(arg)
            size == 2 ^ (32 - p)
        IN  /\ p <= 30 =>
                  /\ Elems(ret.list) = StrictlyBetween(arg)
                  /\ Len(ret.list) = size - 2
                  /\ Dotted(net) \notin Elems(ret.list)
                  /\ Dotted(AddrPlus(net, size - 1)) \notin Elems(ret.list)
            /\ p = 31 => ret.list = <<Dotted(net), Dotted(AddrPlus(net, 1))>>
            /\ p = 32 => ret.list = <<Split(arg, "/")[1]>>
            /\ arg = "192.168.1.0/30" =>
                  ret.list = <<"192.168.1.1", "192.168.1.2">>

\* the range of the example has been expanded
C10_Witness ==
    /\ op = "expand_cidr"
    /\ arg = "192.168.1.0/30"
    /\ ret = ReturnedList(<<"192.168.1.1", "192.168.1.2">>)


(***************************************************************************)
(* Properties of the run: how it ends                                      *)
(***************************************************************************)
\* the addresses a specification stands for under the name service d
SpecAddresses(d, spec) == UNION {AtomResult(d, a) : a \in Elems(Parts(spec))}

\* the targets of the command line that are not excluded
Remaining ==
    SpecAddresses(dns, args_targets) \ SpecAddresses(dns, args_exclude)

\* the run went through the loop and build_report raised
ReportFailed == pc = "exit" /\ called # <<>> /\ report = NoReport

\* C11: a run that wrote the report exits with 0, whatever failed per host;
\* a run exits with another status only when no target is left after
\* resolution or exclusion, or when writing the report failed.
C11_ExitCodes ==
    pc = "exit" =>
        /\ report # NoReport => exit_code = 0
        /\ exit_code # 0 =>
              \/ SpecAddresses(dns, args_targets) = {}
              \/ Remaining = {}
              \/ ReportFailed

\* C12: the run on "" and the run whose resolved targets are all excluded
\* end with no entry in the Result Collection, a status other than 0 and no
\* exception out of main().
C12_EmptyRunsFail ==
    (pc = "exit" /\ (args_targets = ""
                     \/ (resolved_targets # {}
                         /\ resolved_targets \subseteq excluded_ips))) =>
        /\ hosts = <<>>
        /\ exit_code # 0
        /\ uncaught = None


(***************************************************************************)
(* Properties of the Host Finding                                          *)
(***************************************************************************)
SpecificOs == {"Windows", "Linux", "Unix"}

\* the steps of enumerate_host that work on the finding the service scan made
FindingPcs == {"os", "smb", "netbios", "ldap", "add"}

\* C13: through the passes applied to one Host Finding after the service
\* scan, an os_type that is Windows, Linux or Unix stays one of the three: it
\* never becomes Unknown or absent.
C13_OsTypeStaysSpecific ==
    [][(pc \in FindingPcs /\ host_info.os_type \in SpecificOs) =>
          /\ host_info' # NoHost => host_info'.os_type \in SpecificOs
          /\ (pc = "add" /\ raised' = raised) =>
                get_host(hosts', host_info.ip_address).os_type \in SpecificOs]_vars

\* the service scan found Windows, the OS detection that followed found
\* nothing, and the finding still says Windows
C13_Witness ==
    /\ pc \in {"smb", "netbios", "ldap", "add"}
    /\ Len(host_info.command_outputs) >= 2
    /\ parse_os_info(host_info.command_outputs[1].output)[1] = "Windows"
    /\ parse_os_info(host_info.command_outputs[2].output)[1] = None
    /\ host_info.os_type = "Windows"

OsTypes == SpecificOs \cup {"Unknown"}

\* C14: at the end of the run every Host Finding of the Result Collection
\* has an os_type among Windows, Linux, Unix and Unknown, the findings of
\* unparsed output and of failed hosts included.
C14_StoredOsTypeIsAKind ==
    pc \in {"report", "exit"} =>
        \A i \in 1..Len(hosts) : hosts[i].os_type \in OsTypes


(***************************************************************************)
(* Properties of one TargetParser instance                                 *)
(***************************************************************************)
\* C15: with T what parse_targets returned and E what parse_exclusions
\* returned, get_final_targets() returns T minus E, which shares no element
\* with E, lies within T, and is T when no address of E is in T.
C15_FinalTargetsIsTMinusE ==
    (/\ op = "get_final_targets"
     /\ returned_targets # NoReturn
     /\ returned_exclusions # NoReturn) =>
        LET T == returned_targets[1]
            E == returned_exclusions[1]
        IN  /\ ret = ReturnedSet(T \ E)
            /\ ret.set \cap E = {}
            /\ ret.set \subseteq T
            /\ (T \cap E = {} => ret.set = T)

\* C16: a parse_targets call on the specification of the instance's first
\* parse_targets call ends as that call ended, whatever was called on the
\* instance in between.
C16_ParseTargetsIdempotent ==
    (op = "parse_targets" /\ arg = first_call.spec) => ret = first_call.end

\* the first specification parsed again, returning the same set, after
\* another specification and an exclusion list went through the instance
C16_Witness ==
    /\ first_call # NoCall
    /\ first_call.spec = "10.0.0.1,10.0.0.2"
    /\ "example.com" \in lookups
    /\ excluded_ips # {}
    /\ op = "parse_targets" /\ arg = first_call.spec
    /\ ret = ReturnedSet({"10.0.0.1", "10.0.0.2"})


\* the words the notes of unverified_info begin with (nmap_parser.py 103-117,
\* windows_enum.py 251)
NotePrefixes ==
    {"OS Version is at least ", "OS version appears to be ", "OS details: ",
     "OS CPE: "}

\* the facts the notes of finding h state: the text after the opening words
NoteFacts(h) ==
    {Slice(h.unverified_info[i], Len(p) + 1, Len(h.unverified_info[i])) :
        <<i, p>> \in {x \in (1..Len(h.unverified_info)) \X NotePrefixes :
                        Slice(h.unverified_info[x[1]], 1, Len(x[2])) = x[2]}}

\* fact v stands in a verified field of finding h
IsVerifiedIn(h, v) ==
    \/ v \in {h.os_type, h.os_version, h.domain}
    \/ \E k \in DOMAIN h.windows_info : h.windows_info[k] = v
    \/ \E i \in 1..Len(h.services) : v \in {h.services[i].name, h.services[i].version}

\* C19: no fact of a stored Host Finding is held both in a verified field
\* (os_type, os_version, services, domain, windows_info) and in a note of
\* unverified_info.
C19_OneConfidenceLevel ==
    \A i \in 1..Len(hosts) :
        \A v \in NoteFacts(hosts[i]) : ~IsVerifiedIn(hosts[i], v)

\* a is what b began as
IsPrefix(a, b) == Len(a) <= Len(b) /\ SubSeq(b, 1, Len(a)) = a

\* one step on a Host Finding: what it may change
GrowsOnly ==
    pc \in FindingPcs =>
       /\ host_info' # NoHost =>
             /\ host_info'.ip_address = host_info.ip_address
             /\ IsPrefix(host_info.command_outputs, host_info'.command_outputs)
             /\ IsPrefix(host_info.services, host_info'.services)
             /\ IsPrefix(host_info.unverified_info, host_info'.unverified_info)
             /\ (DOMAIN host_info.windows_info)
                   \subseteq (DOMAIN host_info'.windows_info)
             /\ (host_info.hostname # None => host_info'.hostname # None)
             /\ (host_info.domain # None => host_info'.domain # None)
       /\ (pc = "add" /\ raised' = raised) =>
             (get_host(hosts', host_info.ip_address) = host_info)

\* C20: through the steps of enumerate_host and enumerate_windows_host on
\* one Host Finding, ip_address stays what it is; command_outputs, services
\* and unverified_info only grow at the end; windows_info keeps its keys;
\* a hostname or domain that is set stays set; the finding is stored as it is.
C20_FindingOnlyGrows == [][GrowsOnly]_vars

\* a Windows finding after all its probes: named, in a domain, with the
\* facts of the SMB and the LDAP probe, five outputs and several notes
C20_Witness ==
    /\ pc = "add"
    /\ host_info.hostname # None /\ host_info.domain # None
    /\ {"OS Version", "LDAP Domain"} \subseteq DOMAIN host_info.windows_info
    /\ Len(host_info.command_outputs) = 5
    /\ Len(host_info.unverified_info) >= 2

(***************************************************************************)
(* Properties of the Result Collection                                     *)
(***************************************************************************)
\* C17: add_host(h) leaves h, as it is, under h.ip_address, whatever was
\* stored there, and every entry under another address as it was; no
\* add_host or get_host call changes start_time, and get_host changes nothing.
C17_AddHostReplaces ==
    [][/\ start_time' = start_time
       /\ op' = "add_host" =>
             /\ get_host(hosts', arg'.host.ip_address) = arg'.host
             /\ Keys(hosts') = Keys(hosts) \cup {arg'.host.ip_address}
             /\ \A ip \in Keys(hosts) \ {arg'.host.ip_address} :
                   get_host(hosts', ip) = get_host(hosts, ip)
       /\ op' = "get_host" => hosts' = hosts]_vars

\* a failed finding has replaced the parsed finding stored under 10.0.0.1,
\* next to the entry of 10.0.0.2
C17_Witness ==
    /\ op = "add_host"
    /\ arg.host = add_unverified_info(HostInfo("10.0.0.1"),
                                      "Enumeration error: MemoryError")
    /\ Len(hosts) = 2
    /\ hosts[1] = arg.host
    /\ hosts[2].ip_address = "10.0.0.2" /\ hosts[2].hostname = "dc01.corp.local"


(***************************************************************************)
(* Properties of the report                                                *)
(***************************************************************************)
\* C18: the host sections of the written report are in the ascending order
\* of the address keys of the Result Collection, whatever the outcome per
\* host was.
C18_ReportInKeyOrder ==
    report # NoReport => report = Written(Sorted(Keys(hosts)))


(***************************************************************************)
(* Properties of the steps on one host                                     *)
(***************************************************************************)
StartsWith(str, p) == Slice(str, 1, Len(p)) = p

IsLdapProbe(c) == StartsWith(c.command, "ldapsearch ")

\* the evidence entry c is that of a platform probe
IsProbe(c) ==
    \/ StartsWith(c.command, "enum4linux ")
    \/ StartsWith(c.command, "nmblookup ")
    \/ IsLdapProbe(c)

\* the probes finding h went through came after both scans, on a Windows
\* host, the LDAP probe behind its port gate
ProbedInOrder(h) ==
    \A i \in 1..Len(h.command_outputs) :
        IsProbe(h.command_outputs[i]) =>
            /\ i >= 3
            /\ StartsWith(h.command_outputs[1].command, "nmap -sV ")
            /\ StartsWith(h.command_outputs[2].command, "nmap -O ")
            /\ h.os_type = "Windows"
            /\ IsLdapProbe(h.command_outputs[i]) => has_ldap(h)

\* C21: a platform probe comes only after the service scan and the OS
\* detection have returned, only on a host whose os_type is Windows, and the
\* LDAP probe only when the services hold port 389 or 636 over tcp.
C21_ProbesAfterScans ==
    /\ pc \in {"smb", "netbios", "ldap"} =>
          /\ Len(host_info.command_outputs) >= 2
          /\ StartsWith(host_info.command_outputs[1].command, "nmap -sV ")
          /\ StartsWith(host_info.command_outputs[2].command, "nmap -O ")
          /\ host_info.os_type = "Windows"
    /\ (pc \in FindingPcs /\ host_info # NoHost) => ProbedInOrder(host_info)
    /\ \A i \in 1..Len(hosts) : ProbedInOrder(hosts[i])

\* a Windows host with the LDAP port after its two scans and three probes
C21_Witness ==
    /\ pc = "add"
    /\ Len(host_info.command_outputs) = 5
    /\ IsLdapProbe(host_info.command_outputs[5])
    /\ has_ldap(host_info)


Last(seq) == seq[Len(seq)]

\* the step appends one evidence entry, of command c with a text of outs
AppendsEvidence(c, outs) ==
    /\ Len(host_info'.command_outputs) = Len(host_info.command_outputs) + 1
    /\ IsPrefix(host_info.command_outputs, host_info'.command_outputs)
    /\ Last(host_info'.command_outputs).command = c
    /\ Last(host_info'.command_outputs).output \in outs

\* one probe's return, whatever it returned: the next probe is up
ProbeGoesOn ==
    /\ (pc = "smb" /\ raised' = raised) =>
          /\ pc' = "netbios" /\ uncaught' = None
          /\ AppendsEvidence("enum4linux -a " \o target_ip,
                {enumerate_smb(r1, r2).out :
                    r1 \in Enum4linuxRuns, r2 \in SmbclientRuns})
    /\ (pc = "netbios" /\ raised' = raised) =>
          /\ pc' = "ldap" /\ uncaught' = None
          /\ AppendsEvidence("nmblookup -A " \o target_ip,
                {enumerate_netbios(r1, r2).out :
                    r1 \in NmblookupRuns, r2 \in NbtscanRuns})
    /\ (pc = "ldap" /\ raised' = raised) =>
          /\ pc' = "add" /\ uncaught' = None
          /\ IF has_ldap(host_info)
             THEN AppendsEvidence("ldapsearch -x -H ldap://" \o target_ip,
                     {enumerate_ldap(r1, rs).out :
                         r1 \in LdapsearchRuns, rs \in LdapBaseRuns})
             ELSE host_info'.command_outputs = host_info.command_outputs

\* C22: whatever the SMB probe returned, the NetBIOS probe is invoked next,
\* and whatever both returned, the LDAP probe when its port gate holds; each
\* invoked probe appends one evidence entry with its text, and the host is
\* returned.
C22_ProbesAreIndependent == [][ProbeGoesOn]_vars

\* a host returned after every tool of the three probes failed: enum4linux
\* missing and smbclient timed out, nmblookup and nbtscan missing, no LDAP
\* search answered
C22_Witness ==
    /\ pc = "add"
    /\ Len(host_info.command_outputs) = 5
    /\ host_info.command_outputs[3].output =
          enumerate_smb(NoSuchTool("enum4linux"), TimedOut).out
    /\ host_info.command_outputs[4].output =
          enumerate_netbios(NoSuchTool("nmblookup"), NoSuchTool("nbtscan")).out
    /\ IsLdapProbe(host_info.command_outputs[5])
    /\ ~TextContains(host_info.command_outputs[5].output, "dc=")


\* the dict d holds a value under key k that is neither "" nor one of not
Holds(d, k, not) == k \in DOMAIN d /\ d[k] # "" /\ d[k] \notin not

\* what one step of enumerate_windows_host does to the domain: the SMB step
\* takes a Domain/Workgroup value other than WORKGROUP, the LDAP step takes
\* the LDAP domain it extracted, and nothing else changes it
DomainPrecedence ==
    /\ (pc = "smb" /\ pc' = "netbios") =>
          LET info == parse_smb_output(Last(host_info'.command_outputs).output)
          IN  host_info'.domain =
                 IF Holds(info, "Domain/Workgroup", {"WORKGROUP"})
                 THEN info["Domain/Workgroup"] ELSE host_info.domain
    /\ (pc = "netbios" /\ pc' = "ldap") => host_info'.domain = host_info.domain
    /\ (pc = "ldap" /\ pc' = "add") =>
          IF has_ldap(host_info)
          THEN LET info == parse_ldap_output(
                               Last(host_info'.command_outputs).output)
               IN  host_info'.domain =
                      IF "LDAP Domain" \in DOMAIN info
                      THEN info["LDAP Domain"] ELSE host_info.domain
          ELSE host_info'.domain = host_info.domain

\* C23: in enumerate_windows_host the placeholder WORKGROUP never becomes the
\* domain, another SMB domain does, and an LDAP domain replaces what the SMB
\* step left: the domain ends as the LDAP domain, else the SMB domain, else
\* what it was.
C23_DomainPrecedence == [][DomainPrecedence]_vars

\* a host that came with a domain, answered WORKGROUP over SMB and gave no
\* LDAP domain: it leaves with the domain it came with
C23_Witness ==
    /\ pc = "add"
    /\ host_info.domain = "OLD.local"
    /\ "Domain/Workgroup" \in DOMAIN host_info.windows_info
    /\ host_info.windows_info["Domain/Workgroup"] = "WORKGROUP"
    /\ has_ldap(host_info)
    /\ "LDAP Domain" \notin DOMAIN host_info.windows_info


\* the step is the return of the OS detection
OsPassReturns == pc = "os" /\ pc' \in {"smb", "add"}

\* what the OS detection of this step extracted: <<os_type, os_version, hints>>
OsExtracted == parse_os_info(Last(host_info'.command_outputs).output)

\* C24: the OS detection pass replaces os_version only by a version it
\* extracted; when it extracted none, with or without an os_type, os_version
\* stays what it was.
C24_VersionKeptWhenAbsent ==
    [][OsPassReturns =>
          /\ host_info'.os_version # host_info.os_version =>
                (OsExtracted[2] # None /\ host_info'.os_version = OsExtracted[2])
          /\ OsExtracted[2] = None =>
                host_info'.os_version = host_info.os_version]_vars

\* the service scan gave Windows 10, the OS detection a Unix without a
\* version: the finding is a Unix one that still holds version 10
C24_Witness ==
    /\ pc = "add"
    /\ Len(host_info.command_outputs) = 2
    /\ parse_os_info(host_info.command_outputs[2].output)[1] = "Unix"
    /\ parse_os_info(host_info.command_outputs[2].output)[2] = None
    /\ host_info.os_type = "Unix"
    /\ host_info.os_version = "10"


(***************************************************************************)
(* Properties of the two parsers side by side                              *)
(***************************************************************************)
\* how a call that computed r ended
Outcome(r) == IF r.exc # None THEN Raised(r.exc) ELSE ReturnedSet(r.set)

\* C25: on every specification and under the same name service
\* parse_exclusions ends as parse_targets ends: it returns the same set, and
\* it asks the name service for the same names.
C25_ExclusionsBuiltAsTargets ==
    /\ op = "parse_exclusions" =>
          /\ ret = Outcome(parse_targets(dns, arg))
          /\ parse_exclusions(dns, arg).looked = parse_targets(dns, arg).looked
    /\ op = "parse_targets" =>
          /\ ret = Outcome(parse_exclusions(dns, arg))
          /\ parse_exclusions(dns, arg).looked = parse_targets(dns, arg).looked

\* parse_exclusions has returned the addresses of a range and of a name, as
\* parse_targets does for this specification
C25_Witness ==
    /\ op = "parse_exclusions"
    /\ arg = "10.0.0.0/30,example.com"
    /\ ret = ReturnedSet({"10.0.0.1", "10.0.0.2", "10.0.0.9"})
    /\ parse_targets(dns, arg).set = {"10.0.0.1", "10.0.0.2", "10.0.0.9"}


(***************************************************************************)
(* Properties of the run: progress                                         *)
(***************************************************************************)
\* C26: every tool call of a host returns, timed out or not: from the loop
\* and from every step of a host that was begun the run gets to the report,
\* which it reaches only with every host of the loop finished.
C26_RunReachesReport ==
    (pc \in {"loop", "tcp", "os", "smb", "netbios", "ldap", "add"})
        ~> (pc = "report")

\* the report step of a run in which a service scan timed out and the probes
\* of a Windows host failed
C26_Witness ==
    /\ pc = "report"
    /\ timed_out # {}
    /\ \E i \in 1..Len(hosts) :
          \E j \in 1..Len(hosts[i].command_outputs) :
             TextContains(hosts[i].command_outputs[j].output, "Command timed out")


(***************************************************************************)
(* Properties of the is_windows flag                                       *)
(***************************************************************************)
FlagMatchesOs(h) == h.is_windows <=> (h.os_type = "Windows")

\* finding h went through enumerate_windows_host
WasProbed(h) ==
    \E i \in 1..Len(h.command_outputs) :
        StartsWith(h.command_outputs[i].command, "enum4linux ")

\* C27: every Host Finding of a run, at every step and in the Result
\* Collection, has is_windows true exactly when its os_type is Windows, and
\* a host goes through enumerate_windows_host exactly when the flag is true
\* after both scans.
C27_FlagIsWindows ==
    /\ (pc \in FindingPcs /\ host_info # NoHost) => FlagMatchesOs(host_info)
    /\ \A i \in 1..Len(hosts) :
          FlagMatchesOs(hosts[i]) /\ (WasProbed(hosts[i]) <=> hosts[i].is_windows)
    /\ pc \in {"smb", "netbios", "ldap"} => host_info.is_windows
    /\ pc = "add" => (WasProbed(host_info) <=> host_info.is_windows)

\* a finding the service scan took for Windows and the OS detection for
\* Linux: the flag is off and the host was not probed
C27_Witness ==
    /\ pc = "add"
    /\ Len(host_info.command_outputs) = 2
    /\ parse_os_info(host_info.command_outputs[1].output)[1] = "Windows"
    /\ host_info.os_type = "Linux"
    /\ ~host_info.is_windows


====
